---- MODULE Spec2Model ----
(***************************************************************************)
(* A model of the durin fault-dispute solver: the generalized-index        *)
(* position algebra, the mock trace providers, the alpha and chad claim    *)
(* solvers and the dispute solver's available_moves over a game DAG, the   *)
(* resolution of a game and the tasks that solve claims under the mutex.   *)
(***************************************************************************)
EXTENDS Integers, Sequences, FiniteSets, TLC

VARIABLES state, root_claim, status, split_depth, max_depth, kind, last,
          lock, tasks

vars == <<state, root_claim, status, split_depth, max_depth, kind, last,
          lock, tasks>>

\* ------------------------------------------------------------------------
\* Bounds of the model.
\* ------------------------------------------------------------------------

\* The deepest position tree of the modelled games: a game has a max_depth
\* from SplitDepth + 1 to MaxDepth.
MaxDepth == 3

\* The largest number of claims in the claim vector.
MaxClaims == 3

\* The depth at which the output bisection ends: 0 < SplitDepth < MaxDepth.
SplitDepth == 1

\* ------------------------------------------------------------------------
\* Program constants.
\* ------------------------------------------------------------------------

\* `u32::MAX`, the parent index that marks the root claim.  The value is
\* beyond the integers of the model checker; it is kept as the one parent
\* index that is no index of the claim vector.
U32_MAX == 0 - 1

\* `FaultDisputeSolver::ROOT_CLAIM_POSITION`.
ROOT_CLAIM_POSITION == 1

\* `VMStatus::Invalid as u8`, the first byte of an alphabet state hash.
VMStatusInvalid == 1

\* The absolute prestate of the alphabet provider of the alpha solver (b'a').
AlphaAbsolutePrestate == 97

\* The absolute prestate of the alphabet provider below the split.
ChadAbsolutePrestate == 0

\* The starting block number of the mock output provider above the split.
StartingBlockNumber == 0

\* ------------------------------------------------------------------------
\* Position algebra (impl Gindex for Position).
\* ------------------------------------------------------------------------

RECURSIVE Pow2(_)
Pow2(n) == IF n <= 0 THEN 1 ELSE 2 * Pow2(n - 1)

\* `x | 1` on an unsigned integer.
Or1(x) == IF x % 2 = 1 THEN x ELSE x + 1

\* `b as u128` / `b as u8` for a bool.
BoolInt(b) == IF b THEN 1 ELSE 0

\* 2u128.pow(depth) + index_at_depth
compute_gindex(d, i) == Pow2(d) + i

\* 127 - leading_zeros: the index of the highest set bit.
RECURSIVE depth(_)
depth(p) == IF p <= 1 THEN 0 ELSE 1 + depth(p \div 2)

index_at_depth(p) == p - Pow2(depth(p))

left(p) == 2 * p

right(p) == Or1(left(p))

parent(p) == p \div 2

\* (self << remaining) | ((1 << remaining) - 1): the low bits are free after
\* the shift, so the bitwise or is an addition.
right_index_shift_only(p, md) == p * Pow2(md - depth(p))

right_index(p, md) == (p * Pow2(md - depth(p))) + (Pow2(md - depth(p)) - 1)

\* The trace index of the left-most leaf below the position.
trace_index_left_most(p, md) ==
    index_at_depth(p * Pow2(md - depth(p)))

trace_index(p, md) == index_at_depth(right_index(p, md))

\* A defend that is two positions right of the attack on every position.
make_move_plus_two(p, is_attack) == 2 * p + (IF is_attack THEN 0 ELSE 2)

\* A move that ignores is_attack: 2p.
make_move_left_child(p, is_attack) == 2 * p

\* A defend that moves to the right child: 2p + 1.
make_move_right_child(p, is_attack) == 2 * p + BoolInt(~is_attack)

\* ((!is_attack as u128) | self) << 1
make_move(p, is_attack) == 2 * (IF is_attack THEN p ELSE Or1(p))

\* ------------------------------------------------------------------------
\* Byte strings and commitments.
\* ------------------------------------------------------------------------

\* U256::from(n).to_be_bytes(): the 32-byte big-endian encoding of n, kept
\* as its width and its value.
be32(n) == <<32, n>>

\* keccak256(abi_encode((instruction, claim))) with byte 0 overwritten by
\* VMStatus::Invalid: a commitment is kept as its status byte and preimage.
alphabet_claim(instruction, claim) == <<VMStatusInvalid, instruction, claim>>

\* The root claim of the tests, 0xc0ffee00c0de00..00: no provider state
\* hashes to it.
Coffee == <<192, 255, 238, 0>>

\* ------------------------------------------------------------------------
\* Trace providers.
\* ------------------------------------------------------------------------

\* providers/alphabet.rs, the provider of the alpha solver: one state byte.
alpha_absolute_prestate == <<AlphaAbsolutePrestate>>

alpha_state_at(p, md) ==
    LET v == AlphaAbsolutePrestate + trace_index(p, md) + 1
    IN  <<IF v <= 255 THEN v ELSE (AlphaAbsolutePrestate + Pow2(md)) % 256>>

alpha_state_hash(p, md) ==
    alphabet_claim(trace_index(p, md), alpha_state_at(p, md)[1])

alpha_proof_at(p) == <<>>

\* providers/mocks/alphabet.rs, the bottom provider of the split.
mock_alphabet_absolute_prestate == be32(ChadAbsolutePrestate)

mock_alphabet_state_at(p, md) ==
    be32(ChadAbsolutePrestate + trace_index(p, md) + 1)

mock_alphabet_state_hash(p, md) ==
    alphabet_claim(trace_index(p, md), mock_alphabet_state_at(p, md)[2])

mock_alphabet_proof_at(p) == <<>>

\* providers/mocks/mock_output.rs, the top provider of the split: the raw
\* state is the commitment.
mock_output_absolute_prestate == be32(StartingBlockNumber)

mock_output_state_at(p, leaf_depth) ==
    be32(trace_index(p, leaf_depth) + StartingBlockNumber + 1)

mock_output_state_hash(p, leaf_depth) == mock_output_state_at(p, leaf_depth)

\* providers/split.rs: positions of depth <= split_depth go to the top
\* provider, deeper ones to the bottom provider, with the position unchanged.
split_absolute_prestate(p, sd) ==
    IF depth(p) <= sd THEN mock_output_absolute_prestate
                      ELSE mock_alphabet_absolute_prestate

split_state_at(p, sd, md) ==
    IF depth(p) <= sd THEN mock_output_state_at(p, sd)
                      ELSE mock_alphabet_state_at(p, md)

split_state_hash(p, sd, md) ==
    IF depth(p) <= sd THEN mock_output_state_hash(p, sd)
                      ELSE mock_alphabet_state_hash(p, md)

\* unimplemented!(): the top provider has no proofs and the call aborts the
\* task; the marker stands for the abort.
mock_output_proof_at(p) == <<0, 0, 0>>

split_proof_at(p, sd) ==
    IF depth(p) <= sd THEN mock_output_proof_at(p)
                      ELSE mock_alphabet_proof_at(p)

\* The provider the solver of kind k holds, as seen by the game.
provider_state_hash(k, p, sd, md) ==
    IF k = "alpha" THEN alpha_state_hash(p, md) ELSE split_state_hash(p, sd, md)

provider_state_at(k, p, sd, md) ==
    IF k = "alpha" THEN alpha_state_at(p, md) ELSE split_state_at(p, sd, md)

provider_proof_at(k, p, sd) ==
    IF k = "alpha" THEN alpha_proof_at(p) ELSE split_proof_at(p, sd)

provider_absolute_prestate(k, p, sd) ==
    IF k = "alpha" THEN alpha_absolute_prestate
                   ELSE split_absolute_prestate(p, sd)

\* ------------------------------------------------------------------------
\* Responses (FaultSolverResponse) and the result of one solve.
\* ------------------------------------------------------------------------

NoBytes == <<>>

Skip(i) ==
    [type |-> "Skip", is_attack |-> FALSE, claim_index |-> i,
     claim |-> NoBytes, prestate |-> NoBytes, proof |-> NoBytes]

Move(a, i, c) ==
    [type |-> "Move", is_attack |-> a, claim_index |-> i,
     claim |-> c, prestate |-> NoBytes, proof |-> NoBytes]

Step(a, i, pre, prf) ==
    [type |-> "Step", is_attack |-> a, claim_index |-> i,
     claim |-> NoBytes, prestate |-> pre, proof |-> prf]

NoResponse ==
    [type |-> "None", is_attack |-> FALSE, claim_index |-> 0,
     claim |-> NoBytes, prestate |-> NoBytes, proof |-> NoBytes]

\* A solve that clears the flag when it returns its response.
Ok_unvisited(r) == [ok |-> TRUE, resp |-> r, visited |-> FALSE]

\* Ok(response): the claim stays visited.
Ok(r) == [ok |-> TRUE, resp |-> r, visited |-> TRUE]

\* Err(e) out of one of the fetch_* helpers: the map_err closure clears the
\* visited flag of the observed claim before the error is returned.
fetch_err == [ok |-> FALSE, resp |-> NoResponse, visited |-> FALSE]

\* Err(e) out of a provider call made with a bare `?`: nothing is undone.
bare_err == [ok |-> FALSE, resp |-> NoResponse, visited |-> TRUE]

\* ------------------------------------------------------------------------
\* AlphaClaimSolver::solve_claim (solvers/alpha.rs).  c is the claim, i its
\* index, ar is attacking_root, f the number of the provider call of this
\* solve that fails (0: none fails).
\* ------------------------------------------------------------------------

\* claim_depth % 2 == attacking_root as u8: the claim supports the local
\* opinion of the root claim.
alpha_same_side_flipped(claim_depth, ar) == claim_depth % 2 # BoolInt(ar)

alpha_same_side_never(claim_depth, ar) == FALSE

alpha_same_side(claim_depth, ar) == claim_depth % 2 = BoolInt(ar)

\* An answer that is always an attack.
alpha_is_attack_always(self_state_hash, value) == TRUE

\* is_attack = self_state_hash != claim.value
alpha_is_attack_flipped(self_state_hash, value) == self_state_hash = value

alpha_is_attack(self_state_hash, value) == self_state_hash # value

\* pre_state_pos = claim.position - is_attack as u128
alpha_pre_state_pos_same(position, is_attack) == position

alpha_pre_state_pos(position, is_attack) == position - BoolInt(is_attack)

\* A solver that bisects below the leaves.
alpha_is_leaf_never(claim_depth, md) == FALSE

\* claim_depth == max_depth: the counter is a VM step.
alpha_is_leaf(claim_depth, md) == claim_depth = md

\* claim.position.index_at_depth() == 0 && is_attack: the step takes the
\* absolute prestate.
alpha_first_leaf(position, is_attack) ==
    index_at_depth(position) = 0 /\ is_attack

\* AlphaClaimSolver<T, P>::solve_claim with the provider P of kind pk.
alpha_solve_claim_on(pk, c, i, sd, md, ar, f) ==
    LET claim_depth == depth(c.position)
        is_attack ==
            alpha_is_attack(provider_state_hash(pk, c.position, sd, md), c.value)
        pre_state_pos == alpha_pre_state_pos(c.position, is_attack)
    IN  IF alpha_same_side(claim_depth, ar) THEN Ok(Skip(i))
        ELSE IF c.parent_index = U32_MAX /\ ar THEN
            IF f = 1 THEN fetch_err
            ELSE Ok(Move(TRUE, i,
                         provider_state_hash(pk, make_move(c.position, TRUE),
                                             sd, md)))
        ELSE IF f = 1 THEN fetch_err
        ELSE IF alpha_is_leaf(claim_depth, md) THEN
            IF alpha_first_leaf(c.position, is_attack) THEN
                IF f = 2 THEN bare_err
                ELSE Ok(Step(is_attack, i,
                             provider_absolute_prestate(pk, c.position, sd),
                             NoBytes))
            ELSE IF f = 2 \/ f = 3 THEN fetch_err
            ELSE Ok(Step(is_attack, i,
                         provider_state_at(pk, pre_state_pos, sd, md),
                         provider_proof_at(pk, pre_state_pos, sd)))
        ELSE IF f = 2 THEN fetch_err
        ELSE Ok(Move(is_attack, i,
                     provider_state_hash(pk, make_move(c.position, is_attack),
                                         sd, md)))

\* The alpha solver over the alphabet provider, which has no split depth.
alpha_solve_claim(c, i, md, ar, f) ==
    alpha_solve_claim_on("alpha", c, i, 0, md, ar, f)

\* ------------------------------------------------------------------------
\* ChadClaimSolver::solve_claim (solvers/alpha_chad.rs).
\* ------------------------------------------------------------------------

\* local_agree = local_claim == claim.value
chad_local_agree_self(local_claim, value) == local_claim = local_claim

chad_local_agree(local_claim, value) == local_claim = value

\* A solver that takes no level as its own.
chad_right_level_never(ar, claim_depth) == FALSE

\* right_level = attacking_root != (claim_depth % 2 == 0)
chad_right_level_flipped(ar, claim_depth) == ar = (claim_depth % 2 = 0)

chad_right_level(ar, claim_depth) == ar # (claim_depth % 2 = 0)

\* A step whose prestate is always read at the claim's own position.
chad_pre_state_pos_same(position, local_agree) == position

\* The prestate of a step commits to claim.position for a defence and to
\* claim.position - 1 for an attack.
chad_pre_state_pos(position, local_agree) ==
    IF local_agree THEN position ELSE position - 1

\* No claim is an execution trace subgame root.
chad_subgame_root_never(claim_depth, sd) == FALSE

\* claim_depth == split_depth + 1
chad_subgame_root(claim_depth, sd) == claim_depth = sd + 1

\* A step that takes the absolute prestate on the first leaf of the whole
\* tree alone.
chad_first_leaf_of_tree(move_pos, sd, md) == index_at_depth(move_pos) = 0

\* move_pos.index_at_depth() % 2u64.pow((max_depth - split_depth) as u32)
\* is 0: the step takes the absolute prestate.
chad_first_leaf(move_pos, sd, md) ==
    index_at_depth(move_pos) % Pow2(md - sd) = 0

\* The position the proof of a step is fetched at: move_pos.
chad_proof_pos(position, local_agree) == make_move(position, ~local_agree)

chad_solve_claim(c, i, sd, md, ar, f) ==
    LET claim_depth == depth(c.position)
        local_claim == split_state_hash(c.position, sd, md)
        local_agree == chad_local_agree(local_claim, c.value)
        right_level == chad_right_level(ar, claim_depth)
        move_pos == make_move(c.position, ~local_agree)
        prestate ==
            IF ~chad_first_leaf(move_pos, sd, md)
            THEN split_state_at(chad_pre_state_pos(c.position, local_agree),
                                sd, md)
            ELSE split_absolute_prestate(move_pos, sd)
    IN  IF f = 1 THEN fetch_err
        ELSE IF c.parent_index = U32_MAX THEN
            IF local_agree /\ right_level THEN Ok(Skip(i))
            ELSE IF f = 2 THEN fetch_err
            ELSE Ok(Move(TRUE, i,
                         split_state_hash(make_move(c.position, TRUE), sd, md)))
        ELSE IF chad_subgame_root(claim_depth, sd) /\ local_agree THEN Ok(Skip(i))
        ELSE IF right_level THEN Ok(Skip(i))
        ELSE IF depth(move_pos) <= md THEN
            IF f = 2 THEN fetch_err
            ELSE Ok(Move(~local_agree, i, split_state_hash(move_pos, sd, md)))
        ELSE IF f = 2 \/ f = 3 THEN fetch_err
        ELSE Ok(Step(~local_agree, i, prestate,
                     split_proof_at(chad_proof_pos(c.position, local_agree), sd)))

\* The claim solver the dispute solver was built with.
solve_claim(k, c, i, sd, md, ar, f) ==
    IF k = "alpha" THEN alpha_solve_claim(c, i, md, ar, f)
                   ELSE chad_solve_claim(c, i, sd, md, ar, f)

\* ------------------------------------------------------------------------
\* FaultDisputeSolver::available_moves (solver.rs).
\* ------------------------------------------------------------------------

\* The indices of all the claims, visited or not.
RECURSIVE unvisited_from_all(_, _)
unvisited_from_all(st, i) ==
    IF i >= Len(st) THEN <<>> ELSE <<i>> \o unvisited_from_all(st, i + 1)

\* The indices (from 0) of the claims with visited = false, in vector order.
RECURSIVE unvisited_from(_, _)
unvisited_from(st, i) ==
    IF i >= Len(st) THEN <<>>
    ELSE IF ~st[i + 1].visited THEN <<i>> \o unvisited_from(st, i + 1)
    ELSE unvisited_from(st, i + 1)

unvisited_indices(st) == unvisited_from(st, 0)

\* One solve_claim call that also overwrites the value of the claim.
solve_on_overwrite(k, st, i, sd, md, ar, f) ==
    LET r == solve_claim(k, st[i + 1], i, sd, md, ar, f)
    IN  [ok |-> r.ok, resp |-> r.resp,
         state |-> [st EXCEPT ![i + 1].visited = r.visited,
                              ![i + 1].value = Coffee]]

\* One solve_claim call that stamps the flag of claim 0 instead of claim i.
solve_on_first(k, st, i, sd, md, ar, f) ==
    LET r == solve_claim(k, st[i + 1], i, sd, md, ar, f)
    IN  [ok |-> r.ok, resp |-> r.resp,
         state |-> [st EXCEPT ![1].visited = r.visited]]

\* One solve_claim call on the game: the claim's visited flag is what the
\* solve leaves behind.
solve_on(k, st, i, sd, md, ar, f) ==
    LET r == solve_claim(k, st[i + 1], i, sd, md, ar, f)
    IN  [ok |-> r.ok, resp |-> r.resp,
         state |-> [st EXCEPT ![i + 1].visited = r.visited]]

\* .map(|claim_index| self.solve_claim(..)).collect::<Result<Vec<_>>>():
\* the claims are solved one after the other in index order and the first
\* Err ends the iteration.  fc/fk: call number fk of the solve of claim fc
\* fails.
RECURSIVE collect(_, _, _, _, _, _, _, _, _)
collect(k, st, idxs, acc, sd, md, ar, fc, fk) ==
    IF idxs = <<>> THEN [ok |-> TRUE, moves |-> acc, state |-> st]
    ELSE LET i == Head(idxs)
         IN  \* r is the one result of the solve of claim i
             CHOOSE out \in
               {IF r.ok
                THEN collect(k, r.state, Tail(idxs), Append(acc, r.resp),
                             sd, md, ar, fc, fk)
                ELSE [ok |-> FALSE, moves |-> <<>>, state |-> r.state] :
                  r \in {solve_on(k, st, i, sd, md, ar,
                                  IF i = fc THEN fk ELSE 0)}} : TRUE

\* fc = -1: the state_hash call for the root position fails.
available_moves(k, st, rc, sd, md, fc, fk) ==
    LET attacking_root ==
            provider_state_hash(k, ROOT_CLAIM_POSITION, sd, md) # rc
    IN  IF fc = -1 THEN [ok |-> FALSE, moves |-> <<>>, state |-> st,
                         attacking_root |-> FALSE]
        ELSE LET r == collect(k, st, unvisited_indices(st), <<>>,
                              sd, md, attacking_root, fc, fk)
             IN  [ok |-> r.ok, moves |-> r.moves, state |-> r.state,
                  attacking_root |-> attacking_root]

\* ------------------------------------------------------------------------
\* The state machine.
\* ------------------------------------------------------------------------

\* The claim values the games are built from: the provider's own commitment
\* at the position, or a commitment no provider state has.
Values(k, p, sd, md) == {provider_state_hash(k, p, sd, md), Coffee}

ClaimData(pi, pos, v, clk) ==
    [parent_index |-> pi, position |-> pos, value |-> v, clock |-> clk,
     countered |-> FALSE, visited |-> FALSE]

\* The fields of the game beside the claim vector.
game == <<root_claim, status, split_depth, max_depth>>

\* The call that returned last and has not been taken by the caller: the
\* game it was made on, its arguments and its result.
NoCall ==
    [op |-> "none", pre |-> <<>>, pre_game |-> <<>>, idx |-> 0,
     attacking_root |-> FALSE, ok |-> TRUE, moves |-> <<>>]

\* No task holds the mutex of the game.
NoTask == 0

Init ==
    /\ kind \in {"alpha", "chad"}
    /\ max_depth \in (SplitDepth + 1)..MaxDepth
    /\ split_depth = SplitDepth
    /\ status = "InProgress"
    /\ root_claim \in Values(kind, ROOT_CLAIM_POSITION, split_depth, max_depth)
    /\ \E v \in Values(kind, ROOT_CLAIM_POSITION, split_depth, max_depth) :
           state = <<ClaimData(U32_MAX, ROOT_CLAIM_POSITION, v, 0)>>
    /\ last = NoCall
    /\ lock = NoTask
    /\ tasks = <<>>

\* The game appends a counter to claim pi: an attack or a defence of its
\* position, with the clock of the moment.
AddClaim ==
    /\ last.op = "none"
    /\ Len(state) < MaxClaims
    /\ \E pi \in 0..(Len(state) - 1), is_attack \in BOOLEAN :
         LET pos == make_move(state[pi + 1].position, is_attack)
         IN  /\ depth(pos) <= max_depth
             /\ \E v \in Values(kind, pos, split_depth, max_depth) :
                    state' = Append(state, ClaimData(pi, pos, v, Len(state)))
    /\ last' = NoCall
    /\ UNCHANGED <<root_claim, status, split_depth, max_depth, kind, lock, tasks>>

\* A direct call of the claim solver on claim i.
SolveClaim ==
    \E i \in 0..Len(state), ar \in BOOLEAN, f \in 0..3 :
        /\ last.op = "none"
        /\ (i = Len(state)) => (f = 0)
        /\ IF i < Len(state)
           THEN LET r == solve_on(kind, state, i, split_depth, max_depth, ar, f)
                IN  /\ state' = r.state
                    /\ last' = [op |-> "solve_claim", pre |-> state,
                                pre_game |-> game, idx |-> i,
                                attacking_root |-> ar, ok |-> r.ok,
                                moves |-> IF r.ok THEN <<r.resp>> ELSE <<>>]
           ELSE /\ state' = state
                /\ last' = [op |-> "solve_claim", pre |-> state,
                            pre_game |-> game, idx |-> i,
                            attacking_root |-> ar, ok |-> FALSE, moves |-> <<>>]
        /\ UNCHANGED <<root_claim, status, split_depth, max_depth, kind, lock, tasks>>

AvailableMoves ==
    \E fc \in -1..Len(state), fk \in 1..3 :
        /\ last.op = "none"
        /\ (fc = -1 \/ fc = Len(state)) => (fk = 1)
        /\ (fc \in 0..(Len(state) - 1)) => ~state[fc + 1].visited
        /\ LET r == available_moves(kind, state, root_claim, split_depth,
                                 max_depth, fc, fk)
           IN  /\ state' = r.state
               /\ last' = [op |-> "available_moves", pre |-> state,
                           pre_game |-> game, idx |-> 0,
                           attacking_root |-> r.attacking_root, ok |-> r.ok,
                           moves |-> r.moves]
        /\ UNCHANGED <<root_claim, status, split_depth, max_depth, kind, lock, tasks>>

\* The caller takes the result of the call that returned.
Return ==
    /\ last.op # "none"
    /\ last' = NoCall
    /\ UNCHANGED <<state, root_claim, status, split_depth, max_depth, kind,
                   lock, tasks>>

Next == AddClaim \/ SolveClaim \/ AvailableMoves \/ Return

Spec == Init /\ [][Next]_vars

\* ------------------------------------------------------------------------
\* Properties.
\* ------------------------------------------------------------------------

\* The last call was a solve_claim on a claim of the vector.
IsSolve == last.op = "solve_claim" /\ last.idx < Len(last.pre)

IsMoves == last.op = "available_moves"

\* The claim a solve_claim call was made on.
Solved == last.pre[last.idx + 1]

\* The responses of the last call.
Responses == {last.moves[n] : n \in 1..Len(last.moves)}

\* The claim a response names.
ClaimOf(r) == last.pre[r.claim_index + 1]

IsRoot(c) == c.parent_index = U32_MAX

\* The provider's commitment at position p in the game of the last call.
Hash(p) == provider_state_hash(kind, p, last.pre_game[3], last.pre_game[4])

\* (depth(p) % 2 == 0) xor attacking_root
RightLevel(p) == (depth(p) % 2 = 0) # last.attacking_root

LocalAgree(c) == Hash(c.position) = c.value

Counters(r) == r.type \in {"Move", "Step"}

\* C1: a non-root claim on the honest side's parity is answered by Skip(i),
\* never by a Move or a Step: every response of a call that is for such a
\* claim is Skip, a solve_claim that returns a response for it returns
\* Skip(i), and the alpha solver, which asks no oracle for it, always does.
C1_RightLevelSkipped ==
    /\ \A r \in Responses :
           (~IsRoot(ClaimOf(r)) /\ RightLevel(ClaimOf(r).position))
               => r = Skip(r.claim_index)
    /\ (IsSolve /\ ~IsRoot(Solved) /\ RightLevel(Solved.position))
           => /\ last.ok => last.moves = <<Skip(last.idx)>>
              /\ kind = "alpha" => last.ok

\* A wrong claim on the honest parity was solved and skipped.
C1_Witness ==
    /\ IsSolve /\ last.ok
    /\ ~IsRoot(Solved) /\ RightLevel(Solved.position)
    /\ ~LocalAgree(Solved)
    /\ last.moves = <<Skip(last.idx)>>

\* C2 as stated: every Move or Step of available_moves is for a claim of
\* odd depth when attacking_root and of even depth when not.
C2_Original ==
    IsMoves =>
        \A r \in Responses :
            Counters(r) =>
                depth(ClaimOf(r).position) % 2 = BoolInt(last.attacking_root)

\* C2 amended: in a game whose claim 0 carries the game's root claim value,
\* every Move or Step of available_moves is for a claim of even depth when
\* attacking_root and of odd depth when not.
C2_CounterParity ==
    (IsMoves /\ last.pre[1].value = last.pre_game[1]) =>
        \A r \in Responses :
            Counters(r) =>
                depth(ClaimOf(r).position) % 2 = BoolInt(~last.attacking_root)

\* available_moves countered a claim below the root.
C2_Witness ==
    /\ IsMoves /\ last.ok
    /\ last.pre[1].value = last.pre_game[1]
    /\ \E r \in Responses : Counters(r) /\ ~IsRoot(ClaimOf(r))

\* The response the chad solver gives to a root claim c at index i.
RootDecision(c, i) ==
    IF LocalAgree(c) /\ RightLevel(c.position)
    THEN Skip(i)
    ELSE Move(TRUE, i, Hash(2 * c.position))

\* C3 as stated: a root claim gets Skip(i) exactly when the provider's hash
\* at its position is its value and right_level holds, otherwise
\* Move(true, i, state_hash(left(p))).
C3_Original ==
    \A r \in Responses :
        IsRoot(ClaimOf(r)) => r = RootDecision(ClaimOf(r), r.claim_index)

\* C3 amended: the chad solver decides a root claim as stated; the alpha
\* solver skips a root claim exactly when right_level holds, whatever the
\* claim's value, and otherwise attacks it with state_hash(left(p)).  When
\* available_moves runs on a game whose claim 0 carries the game's root
\* claim value both give Skip(0) if that value is the provider's hash at
\* position 1 and Move(true, 0, state_hash(2)) if not.
C3_RootDecision ==
    /\ \A r \in Responses :
           IsRoot(ClaimOf(r)) =>
               /\ kind = "chad" => r = RootDecision(ClaimOf(r), r.claim_index)
               /\ kind = "alpha" =>
                      r = IF RightLevel(ClaimOf(r).position)
                          THEN Skip(r.claim_index)
                          ELSE Move(TRUE, r.claim_index,
                                    Hash(2 * ClaimOf(r).position))
    /\ (IsSolve /\ IsRoot(Solved) /\ last.ok) => last.moves[1].claim_index = last.idx
    /\ (IsMoves /\ last.ok /\ ~last.pre[1].visited
           /\ last.pre[1].value = last.pre_game[1])
           => last.moves[1] = IF Hash(1) = last.pre[1].value
                              THEN Skip(0)
                              ELSE Move(TRUE, 0, Hash(2))

\* A root-only game whose root value is not the provider's hash was
\* attacked by available_moves.
C3_Witness ==
    /\ IsMoves /\ last.ok
    /\ Len(last.pre) = 1 /\ ~last.pre[1].visited
    /\ last.pre[1].value = last.pre_game[1]
    /\ last.moves = <<Move(TRUE, 0, Hash(2))>>

\* The chad solver never defends the root of an execution-trace sub-game it
\* agrees with.
SubgameRootAgreed(c) ==
    kind = "chad" /\ depth(c.position) = last.pre_game[3] + 1 /\ LocalAgree(c)

\* The bisection move against claim c at index i.
Bisection(c, i) ==
    Move(~LocalAgree(c), i,
         Hash(IF LocalAgree(c) THEN 2 * Or1(c.position) ELSE 2 * c.position))

\* C4 as stated: a non-root claim off the honest parity and above max_depth
\* gets Move(is_attack, i, state_hash(make_move(p, is_attack))) with
\* is_attack = (state_hash(p) != value).
C4_Original ==
    \A r \in Responses :
        (/\ ~IsRoot(ClaimOf(r))
         /\ ~RightLevel(ClaimOf(r).position)
         /\ depth(ClaimOf(r).position) < last.pre_game[4])
            => r = Bisection(ClaimOf(r), r.claim_index)

\* C4 amended: such a claim gets that Move, except that the chad solver
\* answers Skip(i) when the claim sits at depth split_depth + 1 and the
\* provider agrees with it.
C4_BisectionMove ==
    \A r \in Responses :
        (/\ ~IsRoot(ClaimOf(r))
         /\ ~RightLevel(ClaimOf(r).position)
         /\ depth(ClaimOf(r).position) < last.pre_game[4])
            => r = IF SubgameRootAgreed(ClaimOf(r))
                   THEN Skip(r.claim_index)
                   ELSE Bisection(ClaimOf(r), r.claim_index)

\* A claim the provider agrees with was defended.
C4_Witness ==
    /\ IsSolve /\ last.ok
    /\ ~IsRoot(Solved) /\ ~RightLevel(Solved.position)
    /\ depth(Solved.position) < last.pre_game[4]
    /\ LocalAgree(Solved)
    /\ last.moves = <<Move(FALSE, last.idx, Hash(2 * Solved.position + 2))>>

\* C5 as stated: when a provider call fails during a solve_claim, the call
\* returns the error and the claim's visited flag is false afterwards.
C5_Original ==
    (IsSolve /\ ~last.ok) => ~state[last.idx + 1].visited

\* C6 as stated: when available_moves returns an error, every claim that
\* was unvisited before the call is unvisited after it.
C6_Original ==
    (IsMoves /\ ~last.ok) =>
        \A n \in 1..Len(last.pre) :
            ~last.pre[n].visited => ~state[n].visited

\* C7: on success available_moves returns one response per claim that was
\* unvisited when the call began and none for the others, in increasing
\* claim-index order, each being the solver's response to the claim whose
\* index it carries.
C7_ResponsesInOrder ==
    (IsMoves /\ last.ok) =>
        /\ Len(last.moves) =
               Cardinality({n \in 1..Len(last.pre) : ~last.pre[n].visited})
        /\ \A n \in 1..Len(last.moves) :
               /\ last.moves[n].type \in {"Skip", "Move", "Step"}
               /\ last.moves[n].claim_index \in 0..(Len(last.pre) - 1)
               /\ ~ClaimOf(last.moves[n]).visited
               /\ last.moves[n] =
                      solve_claim(kind, ClaimOf(last.moves[n]),
                                  last.moves[n].claim_index, last.pre_game[3],
                                  last.pre_game[4], last.attacking_root, 0).resp
        /\ \A n \in 1..(Len(last.moves) - 1) :
               last.moves[n].claim_index < last.moves[n + 1].claim_index

\* A call answered two claims and passed over a visited claim before them.
C7_Witness ==
    /\ IsMoves /\ last.ok
    /\ Len(last.moves) = 2
    /\ last.pre[1].visited
    /\ last.moves[1].claim_index = 1 /\ last.moves[2].claim_index = 2

\* The step the alpha solver takes against leaf claim c at index i.
AlphaStep(c, i) ==
    IF c.position = Pow2(last.pre_game[4]) /\ ~LocalAgree(c)
    THEN Step(TRUE, i, alpha_absolute_prestate, <<>>)
    ELSE IF ~LocalAgree(c)
    THEN Step(TRUE, i, alpha_state_at(c.position - 1, last.pre_game[4]),
              alpha_proof_at(c.position - 1))
    ELSE Step(FALSE, i, alpha_state_at(c.position, last.pre_game[4]),
              alpha_proof_at(c.position))

\* C8: the alpha solver answers a claim at depth max_depth off the honest
\* parity by Step(is_attack, i, prestate, proof), is_attack being
\* (state_hash(p) != value); the prestate is the absolute prestate, with an
\* empty proof, exactly when the claim is the first leaf and is attacked,
\* else state_at and proof_at of p for a defend and of p - 1 for an attack.
C8_AlphaStep ==
    \A r \in Responses :
        (/\ kind = "alpha"
         /\ depth(ClaimOf(r).position) = last.pre_game[4]
         /\ ~RightLevel(ClaimOf(r).position))
            => /\ r = AlphaStep(ClaimOf(r), r.claim_index)
               /\ (r.prestate = alpha_absolute_prestate)
                      <=> (/\ ClaimOf(r).position = Pow2(last.pre_game[4])
                           /\ r.is_attack)

\* A leaf that is not the first leaf was attacked with the state to its left.
C8_Witness ==
    /\ IsSolve /\ last.ok /\ kind = "alpha"
    /\ depth(Solved.position) = last.pre_game[4]
    /\ Solved.position # Pow2(last.pre_game[4])
    /\ last.moves[1].type = "Step" /\ last.moves[1].is_attack
    /\ last.moves[1].prestate =
           alpha_state_at(Solved.position - 1, last.pre_game[4])

\* C9: with the root claim at position 1, no response to a claim whose
\* parent_index is U32_MAX is a defend: the root is skipped or attacked.
C9_RootNeverDefended ==
    \A r \in Responses :
        (IsRoot(ClaimOf(r)) /\ ClaimOf(r).position = 1)
            => \/ r.type = "Skip"
               \/ r.type = "Move" /\ r.is_attack

\* A root the provider agrees with, off the honest parity, was attacked.
C9_Witness ==
    /\ IsSolve /\ last.ok
    /\ IsRoot(Solved) /\ Solved.position = 1
    /\ LocalAgree(Solved) /\ ~RightLevel(Solved.position)
    /\ last.moves = <<Move(TRUE, last.idx, Hash(2))>>

\* Claim c with its visited flag set to v.
WithVisited(c, v) == [c EXCEPT !.visited = v]

\* C10: a call of solve_claim or available_moves leaves the claim vector's
\* length and order, every claim's parent_index, position, value, clock and
\* countered flag and the game's root claim, status, split_depth and
\* max_depth as they were; it writes the visited flag of the claims it
\* solves and nothing else.
C10_Frame ==
    (last.op # "none") =>
        /\ game = last.pre_game
        /\ Len(state) = Len(last.pre)
        /\ \A n \in 1..Len(state) :
               WithVisited(state[n], last.pre[n].visited) = last.pre[n]
        /\ last.op = "solve_claim" =>
               \A n \in 1..Len(state) :
                   n # last.idx + 1 => state[n] = last.pre[n]
        /\ last.op = "available_moves" =>
               \A n \in 1..Len(state) :
                   last.pre[n].visited => state[n] = last.pre[n]

\* A call on a game of several claims wrote a visited flag.
C10_Witness ==
    /\ last.op = "solve_claim" /\ last.ok
    /\ Len(state) >= 2 /\ last.idx = 1
    /\ state # last.pre
    /\ state[2].visited /\ ~last.pre[2].visited

\* ------------------------------------------------------------------------
\* Clock (types.rs) and FaultDisputeState::resolve (state.rs).
\* ------------------------------------------------------------------------

\* The game duration in seconds; resolve compares with 604800 >> 1.
GAME_DURATION == 604800

\* u64::MAX, the trace index resolve starts its search from: the largest
\* integer of the model checker stands for it, above every trace index.
U64_MAX == 2147483647

\* A Clock is a u128 of two u64 halves: the duration in the high half, the
\* timestamp in the low half.
Clock(d, t) == <<d, t>>

\* (self >> 64) as u64
duration(c) == c[1]

\* (self & u64::MAX as u128) as u64
timestamp(c) == c[2]

\* The two ways the crate is built: with overflow checks (arithmetic
\* overflow panics) and without (it wraps).
Builds == {"debug", "release"}

ResOk(winner, stat) == [kind |-> "ok", value |-> winner, status |-> stat]

ResErr(e, stat) == [kind |-> "err", value |-> e, status |-> stat]

ResPanic(stat) == [kind |-> "panic", value |-> "overflow", status |-> stat]

\* A status that is never taken as decided.
decided_never(stat) == FALSE

\* self.status != GameStatus::InProgress
decided(stat) == stat # "InProgress"

\* A resolve that writes the status whatever sim is.
writes_status_always(sim) == TRUE

\* if !sim { .. self.status = status }
writes_status(sim) == ~sim

\* A scan that keeps the index of the claim it chose.
RECURSIVE scan_exact(_, _, _, _, _)
scan_exact(st, md, i, lmi, lmt) ==
    IF i < 0 THEN [index |-> lmi, trace |-> lmt]
    ELSE IF st[i + 1].countered THEN scan_exact(st, md, i - 1, lmi, lmt)
    ELSE IF trace_index(st[i + 1].position, md) < lmt
    THEN scan_exact(st, md, i - 1, i, trace_index(st[i + 1].position, md))
    ELSE scan_exact(st, md, i - 1, lmi, lmt)

\* A scan that never keeps an index past the last claim.
RECURSIVE scan_clamped(_, _, _, _, _)
scan_clamped(st, md, i, lmi, lmt) ==
    IF i < 0 THEN [index |-> lmi, trace |-> lmt]
    ELSE IF st[i + 1].countered THEN scan_clamped(st, md, i - 1, lmi, lmt)
    ELSE IF trace_index(st[i + 1].position, md) < lmt
    THEN scan_clamped(st, md, i - 1,
                      IF i + 1 < Len(st) THEN i + 1 ELSE i,
                      trace_index(st[i + 1].position, md))
    ELSE scan_clamped(st, md, i - 1, lmi, lmt)

\* A scan that lets the earlier claim win on equal trace indices.
RECURSIVE scan_ties_first(_, _, _, _, _)
scan_ties_first(st, md, i, lmi, lmt) ==
    IF i < 0 THEN [index |-> lmi, trace |-> lmt]
    ELSE IF st[i + 1].countered THEN scan_ties_first(st, md, i - 1, lmi, lmt)
    ELSE IF trace_index(st[i + 1].position, md) <= lmt
    THEN scan_ties_first(st, md, i - 1, i + 1,
                         trace_index(st[i + 1].position, md))
    ELSE scan_ties_first(st, md, i - 1, lmi, lmt)

\* The loop of resolve over i = hi, hi - 1, .., 0: the uncountered claim of
\* strictly smallest trace index seen so far sets left_most_index to i + 1.
RECURSIVE scan(_, _, _, _, _)
scan(st, md, i, lmi, lmt) ==
    IF i < 0 THEN [index |-> lmi, trace |-> lmt]
    ELSE IF st[i + 1].countered THEN scan(st, md, i - 1, lmi, lmt)
    ELSE IF trace_index(st[i + 1].position, md) < lmt
    THEN scan(st, md, i - 1, i + 1, trace_index(st[i + 1].position, md))
    ELSE scan(st, md, i - 1, lmi, lmt)

\* opposing_clock.duration() + (now - opposing_clock.timestamp()) in u64:
\* when the timestamp is after now the subtraction panics in a build with
\* overflow checks and wraps in one without, where the sum is then beyond
\* every duration unless adding the duration wraps it back.
expired(oc, now, build) ==
    IF now < timestamp(oc)
    THEN [panic |-> build = "debug",
          over |-> \/ duration(oc) + now - timestamp(oc) < 0
                   \/ duration(oc) + now - timestamp(oc) > GAME_DURATION \div 2]
    ELSE [panic |-> FALSE,
          over |-> duration(oc) + (now - timestamp(oc)) > GAME_DURATION \div 2]

\* FaultDisputeState::resolve on claim vector st with status stat: the
\* result and the status it leaves.
resolve(st, stat, md, sim, now, build) ==
    IF decided(stat) THEN ResOk(stat, stat)
    ELSE IF Len(st) = 0
    THEN \* self.state.len() - 1 underflows: a panic, or usize::MAX and a
         \* failed fetch of that index.
         IF build = "debug" THEN ResPanic(stat)
         ELSE ResErr("ClaimNotFound", stat)
    ELSE
    LET s == scan(st, md, Len(st) - 1, Len(st) - 1, U64_MAX)
    IN  IF s.index >= Len(st) THEN ResErr("ClaimNotFound", stat)
        ELSE
        LET left_most_uncontested == st[s.index + 1]
            winner ==
                IF /\ depth(left_most_uncontested.position) % 2 = 0
                   /\ s.trace # U64_MAX
                THEN "DefenderWins" ELSE "ChallengerWins"
            parent_index == left_most_uncontested.parent_index
        IN  IF ~writes_status(sim) THEN ResOk(winner, stat)
            ELSE IF parent_index # U32_MAX /\ parent_index >= Len(st)
            THEN ResErr("ParentNotFound", stat)
            ELSE
            LET opposing_clock ==
                    IF parent_index = U32_MAX
                    THEN left_most_uncontested.clock
                    ELSE st[parent_index + 1].clock
                e == expired(opposing_clock, now, build)
            IN  IF e.panic THEN ResPanic(stat)
                ELSE IF ~e.over THEN ResErr("ClocksNotExpired", stat)
                ELSE ResOk(winner, winner)

\* ------------------------------------------------------------------------
\* The state machine of resolution: a game is built claim by claim and
\* resolved, speculatively or for real, at some wall-clock time.
\* ------------------------------------------------------------------------

\* The clocks of the claims: one whose timestamp is the later wall-clock
\* time, one that has run for exactly half the game duration.
Clocks == {Clock(0, 2), Clock(GAME_DURATION \div 2, 1)}

\* The wall-clock times (seconds) at which resolve is called.
Nows == {1, 2}

ResolveInit ==
    /\ kind = "alpha"
    /\ max_depth \in (SplitDepth + 1)..MaxDepth
    /\ split_depth = SplitDepth
    /\ status \in {"InProgress", "ChallengerWins", "DefenderWins"}
    /\ root_claim = Coffee
    /\ state = <<>>
    /\ last = NoCall
    /\ lock = NoTask
    /\ tasks = <<>>

\* The game's vector gets its root claim, or a counter to claim pi; a claim
\* is recorded with its clock and may have been countered since.
PushClaim ==
    /\ last.op = "none"
    /\ Len(state) < MaxClaims
    /\ \E c \in BOOLEAN, clk \in Clocks :
         IF Len(state) = 0
         THEN state' = <<[ClaimData(U32_MAX, ROOT_CLAIM_POSITION, Coffee, clk)
                             EXCEPT !.countered = c]>>
         ELSE \E pi \in 0..(Len(state) - 1), is_attack \in BOOLEAN :
                LET pos == make_move(state[pi + 1].position, is_attack)
                IN  /\ depth(pos) <= max_depth
                    /\ state' = Append(state,
                           [ClaimData(pi, pos, Coffee, clk)
                               EXCEPT !.countered = c])
    /\ UNCHANGED <<root_claim, status, split_depth, max_depth, kind, last,
                   lock, tasks>>

Resolve ==
    \E sim \in BOOLEAN, now \in Nows, build \in Builds :
        /\ last.op = "none"
        /\ LET r == resolve(state, status, max_depth, sim, now, build)
           IN  /\ status' = r.status
               /\ last' = [op |-> "resolve", pre |-> state,
                           pre_game |-> game, sim |-> sim, now |-> now,
                           build |-> build, res |-> r]
        /\ UNCHANGED <<state, root_claim, split_depth, max_depth, kind,
                       lock, tasks>>

ResolveNext == PushClaim \/ Resolve \/ Return

SpecResolve == ResolveInit /\ [][ResolveNext]_vars

\* ------------------------------------------------------------------------
\* Properties of resolution.
\* ------------------------------------------------------------------------

IsResolve == last.op = "resolve"

\* The status of the game the last call was made on.
PreStatus == last.pre_game[2]

\* The claim resolve reads after its scan of the game of the last call.
Chosen ==
    scan(last.pre, last.pre_game[4], Len(last.pre) - 1, Len(last.pre) - 1,
         U64_MAX)

\* The scan of the last call ended on a claim of the vector.
HasChosen == Len(last.pre) > 0 /\ Chosen.index < Len(last.pre)

\* The clock resolve holds against the half duration: the clock of the
\* chosen claim's parent, or its own when it is the root.
OpposingClock ==
    LET c == last.pre[Chosen.index + 1]
    IN  IF c.parent_index = U32_MAX THEN c.clock
        ELSE last.pre[c.parent_index + 1].clock

\* The claim vector with every clock replaced by clk.
WithClocks(st, clk) == [n \in 1..Len(st) |-> [st[n] EXCEPT !.clock = clk]]

\* C11: once the status is ChallengerWins or DefenderWins no step changes
\* it, and every resolve call made then returns that status.
C11_StatusFrozen ==
    [][(status # "InProgress") =>
           /\ status' = status
           /\ (last'.op = "resolve") => (last'.res = ResOk(status, status))
      ]_vars

\* A real resolve on a game decided for the defender returned DefenderWins
\* where the claims and clocks would have made the challenger win.
C11_Witness ==
    /\ IsResolve /\ ~last.sim
    /\ PreStatus = "DefenderWins" /\ status = "DefenderWins"
    /\ last.res = ResOk("DefenderWins", "DefenderWins")
    /\ resolve(last.pre, "InProgress", last.pre_game[4], FALSE, last.now,
               last.build) = ResOk("ChallengerWins", "ChallengerWins")

\* C12 as stated: a real resolve on an InProgress game sets the status and
\* returns the winner only when duration + (now - timestamp) of the opposing
\* clock is above 302400, and fails with ClocksNotExpired, the status left
\* InProgress, when the sum is at most 302400.
C12_Original ==
    (IsResolve /\ ~last.sim /\ PreStatus = "InProgress" /\ HasChosen) =>
        LET sum == duration(OpposingClock)
                       + (last.now - timestamp(OpposingClock))
        IN  /\ (last.res.kind = "ok") =>
                   (status = last.res.value /\ sum > GAME_DURATION \div 2)
            /\ (sum <= GAME_DURATION \div 2) =>
                   /\ last.res = ResErr("ClocksNotExpired", "InProgress")
                   /\ status = "InProgress"

\* C13: resolve(sim = true) leaves the status and every other part of the
\* game as they were, whether it returns a status or an error, and its
\* result is the same whatever the clocks of the claims and the wall-clock
\* time are.
C13_SimNoEffect ==
    (IsResolve /\ last.sim) =>
        /\ state = last.pre
        /\ game = last.pre_game
        /\ last.res.status = PreStatus
        /\ (last.res.kind = "ok" /\ PreStatus = "InProgress") =>
               last.res.value \in {"ChallengerWins", "DefenderWins"}
        /\ \A clk \in Clocks, now \in Nows :
               last.res = resolve(WithClocks(last.pre, clk), PreStatus,
                                  last.pre_game[4], TRUE, now, last.build)

\* A speculative resolve returned a winner on a game whose clocks have not
\* expired, and the game is still in progress.
C13_Witness ==
    /\ IsResolve /\ last.sim
    /\ PreStatus = "InProgress" /\ status = "InProgress"
    /\ last.res.kind = "ok"
    /\ resolve(last.pre, "InProgress", last.pre_game[4], FALSE, last.now,
               last.build) = ResErr("ClocksNotExpired", "InProgress")

\* C14 as stated: the claim whose depth parity decides the winner is not
\* countered and no uncountered claim of the vector has a smaller trace
\* index.
C14_Original ==
    (/\ IsResolve /\ PreStatus = "InProgress" /\ last.res.kind = "ok"
     /\ \E n \in 1..Len(last.pre) : ~last.pre[n].countered) =>
        LET c == last.pre[Chosen.index + 1]
        IN  /\ ~c.countered
            /\ \A n \in 1..Len(last.pre) :
                   ~last.pre[n].countered =>
                       trace_index(c.position, last.pre_game[4])
                           <= trace_index(last.pre[n].position,
                                          last.pre_game[4])

\* ------------------------------------------------------------------------
\* Tasks that call the claim solver on a game behind a mutex
\* (world: Arc<Mutex<FaultDisputeState>>).
\* ------------------------------------------------------------------------

\* The tasks that solve claims of the game at the same time.
TaskIds == {1, 2}

\* A task that has not called the solver.
Idle ==
    [pc |-> "idle", idx |-> 0, ar |-> FALSE, k |-> 0, res |-> NoResponse,
     ok |-> TRUE, visited_after |-> FALSE]

\* The number of provider calls solve_claim awaits for claim i when none
\* of them fails.
awaits(k, st, i, sd, md, ar) ==
    Cardinality({f \in 1..3 :
                    ~solve_claim(k, st[i + 1], i, sd, md, ar, f).ok})

\* The task's record when its solve_claim call has returned r.
Done(t, r) ==
    [t EXCEPT !.pc = "done", !.res = r.resp, !.ok = r.ok,
              !.visited_after = r.state[t.idx + 1].visited]

\* Three claims down the left edge of the tree, each with the provider's
\* commitment or another one.
AsyncInit ==
    /\ kind \in {"alpha", "chad"}
    /\ split_depth = SplitDepth
    /\ max_depth = SplitDepth + 1
    /\ status = "InProgress"
    /\ root_claim \in Values(kind, ROOT_CLAIM_POSITION, split_depth, max_depth)
    /\ \E v0 \in Values(kind, 1, split_depth, max_depth),
          v1 \in Values(kind, 2, split_depth, max_depth),
          v2 \in Values(kind, 4, split_depth, max_depth) :
           state = <<ClaimData(U32_MAX, ROOT_CLAIM_POSITION, v0, 0),
                     ClaimData(0, 2, v1, 1), ClaimData(1, 4, v2, 2)>>
    /\ last = NoCall
    /\ lock = NoTask
    /\ tasks = [t \in TaskIds |-> Idle]

\* A task calls solve_claim(world, i, attacking_root) and waits at
\* world.lock().await.
Start ==
    \E t \in TaskIds, i \in 0..(Len(state) - 1), ar \in BOOLEAN :
        /\ tasks[t].pc = "idle"
        /\ tasks' = [tasks EXCEPT ![t] = [Idle EXCEPT !.pc = "lock",
                                                      !.idx = i, !.ar = ar]]
        /\ UNCHANGED <<state, root_claim, status, split_depth, max_depth,
                       kind, last, lock>>

\* The task gets the mutex, stamps visited = true on its claim and runs to
\* its first provider call, or to its return when it makes none; the guard
\* world_lock lives until the function returns.
Acquire ==
    \E t \in TaskIds :
        /\ tasks[t].pc = "lock"
        /\ lock = NoTask
        /\ LET i == tasks[t].idx
               stamped == [state EXCEPT ![i + 1].visited = TRUE]
               n == awaits(kind, state, i, split_depth, max_depth, tasks[t].ar)
               r == solve_on(kind, stamped, i, split_depth, max_depth,
                             tasks[t].ar, 0)
           IN  IF n = 0
               THEN /\ state' = r.state
                    /\ lock' = NoTask
                    /\ tasks' = [tasks EXCEPT ![t] = Done(tasks[t], r)]
               ELSE /\ state' = stamped
                    /\ lock' = t
                    /\ tasks' = [tasks EXCEPT ![t].pc = "await", ![t].k = 1]
        /\ UNCHANGED <<root_claim, status, split_depth, max_depth, kind, last>>

\* The provider call the task awaits completes, with a value or an error:
\* the task goes on to its next call or returns and drops the guard.
OracleReply ==
    \E t \in TaskIds, fails \in BOOLEAN :
        /\ tasks[t].pc = "await"
        /\ LET i == tasks[t].idx
               n == awaits(kind, state, i, split_depth, max_depth, tasks[t].ar)
               r == solve_on(kind, state, i, split_depth, max_depth,
                             tasks[t].ar, IF fails THEN tasks[t].k ELSE 0)
           IN  IF fails \/ tasks[t].k = n
               THEN /\ state' = r.state
                    /\ lock' = NoTask
                    /\ tasks' = [tasks EXCEPT ![t] = Done(tasks[t], r)]
               ELSE /\ tasks' = [tasks EXCEPT ![t].k = tasks[t].k + 1]
                    /\ UNCHANGED <<state, lock>>
        /\ UNCHANGED <<root_claim, status, split_depth, max_depth, kind, last>>

\* The task is cancelled while a provider call is outstanding: its future
\* is dropped at the await, which drops the guard and runs nothing else.
Cancel ==
    \E t \in TaskIds :
        /\ tasks[t].pc = "await"
        /\ lock' = NoTask
        /\ tasks' = [tasks EXCEPT
                        ![t].pc = "cancelled",
                        ![t].visited_after = state[tasks[t].idx + 1].visited]
        /\ UNCHANGED <<state, root_claim, status, split_depth, max_depth,
                       kind, last>>

AsyncNext == Start \/ Acquire \/ OracleReply \/ Cancel

SpecAsync == AsyncInit /\ [][AsyncNext]_vars

\* C15 as stated: no task holds the mutex of the game while it awaits a
\* provider call, so another task can take the lock meanwhile.
C15_Original ==
    \A t \in DOMAIN tasks : (tasks[t].pc = "await") => (lock = NoTask)

\* C16 as stated: when a task is cancelled while one of its provider calls
\* is outstanding, its claim's visited flag is false once it has stopped.
C16_Original ==
    \A t \in DOMAIN tasks :
        (tasks[t].pc = "cancelled") => ~tasks[t].visited_after

\* ------------------------------------------------------------------------
\* Further properties of the solver.
\* ------------------------------------------------------------------------

\* C17 as stated: when the solve of one claim fails inside available_moves,
\* the responses already produced for the other claims of the call are
\* delivered to the caller: every claim the call solved has its response
\* in the result.
C17_Original ==
    (IsMoves /\ ~last.ok) =>
        \A n \in 1..Len(last.pre) :
            (~last.pre[n].visited /\ state[n].visited) =>
                \E r \in Responses : r.claim_index = n - 1

\* The position a Move or Step response r is aimed at.
MovePos(r) == make_move(ClaimOf(r).position, r.is_attack)

\* C19: every Move is aimed at make_move(p, is_attack), a position of depth
\* 1 to max_depth, and carries the provider's commitment there; a counter
\* to a claim at max_depth, which would land below the tree, is a Step.
C19_MovesInTree ==
    \A r \in Responses :
        /\ (r.type = "Move") =>
               /\ depth(MovePos(r)) >= 1
               /\ depth(MovePos(r)) <= last.pre_game[4]
               /\ r.claim = Hash(MovePos(r))
        /\ (Counters(r) /\ depth(MovePos(r)) > last.pre_game[4]) =>
               r.type = "Step"

\* A claim one level above the leaves was countered by a Move to a leaf.
C19_Witness ==
    /\ IsSolve /\ last.ok
    /\ depth(Solved.position) = last.pre_game[4] - 1
    /\ last.moves[1].type = "Move"
    /\ depth(MovePos(last.moves[1])) = last.pre_game[4]

\* ------------------------------------------------------------------------
\* SplitTraceProvider over a top and a bottom provider that may fail
\* (providers/split.rs).
\* ------------------------------------------------------------------------

\* `VMStatus::Unfinished as u8`, the first byte of an absolute prestate hash.
VMStatusUnfinished == 3

\* The five operations of a TraceProvider.
ProviderOps ==
    {"absolute_prestate", "absolute_prestate_hash", "state_at", "state_hash",
     "proof_at"}

\* What one provider call gives back: a value, an error, or a panic of the
\* task; with the provider that was asked and the position it was given.
CallOk(side, p, v) == [kind |-> "ok", value |-> v, side |-> side, position |-> p]

CallErr(side, p) == [kind |-> "err", value |-> <<>>, side |-> side, position |-> p]

CallPanic(side, p) ==
    [kind |-> "panic", value |-> <<>>, side |-> side, position |-> p]

\* MockOutputTraceProvider with leaf depth sd, asked for position p.
top_call(op, p, sd, fails) ==
    IF op = "proof_at" THEN CallPanic("top", p)
    ELSE IF fails THEN CallErr("top", p)
    ELSE IF op \in {"absolute_prestate", "absolute_prestate_hash"}
    THEN CallOk("top", p, mock_output_absolute_prestate)
    ELSE IF op = "state_at" THEN CallOk("top", p, mock_output_state_at(p, sd))
    ELSE CallOk("top", p, mock_output_state_hash(p, sd))

\* The mock AlphabetTraceProvider with max depth md, asked for position p.
bottom_call(op, p, md, fails) ==
    IF fails THEN CallErr("bottom", p)
    ELSE IF op = "absolute_prestate"
    THEN CallOk("bottom", p, mock_alphabet_absolute_prestate)
    ELSE IF op = "absolute_prestate_hash"
    THEN CallOk("bottom", p, <<VMStatusUnfinished, ChadAbsolutePrestate>>)
    ELSE IF op = "state_at" THEN CallOk("bottom", p, mock_alphabet_state_at(p, md))
    ELSE IF op = "state_hash"
    THEN CallOk("bottom", p, mock_alphabet_state_hash(p, md))
    ELSE CallOk("bottom", p, mock_alphabet_proof_at(p))

\* A split that sends the positions at the split depth to the bottom.
split_goes_top_strict(p, sd) == depth(p) < sd

\* position.depth() <= self.split_depth
split_goes_top(p, sd) == depth(p) <= sd

\* One operation of the split provider: the call is handed to one of the
\* two providers with the position as given, and its result is the result.
\* tf, bf: the top, the bottom provider fails when asked.
split_call(op, p, sd, md, tf, bf) ==
    IF split_goes_top(p, sd) THEN top_call(op, p, sd, tf)
                             ELSE bottom_call(op, p, md, bf)

SplitInit ==
    /\ kind = "chad"
    /\ max_depth \in (SplitDepth + 1)..MaxDepth
    /\ split_depth = SplitDepth
    /\ status = "InProgress"
    /\ root_claim = Coffee
    /\ state = <<>>
    /\ last = NoCall
    /\ lock = NoTask
    /\ tasks = <<>>

\* One call of an operation of the split provider at a position of the
\* tree, with either provider healthy or failing.
SplitCall ==
    \E op \in ProviderOps, p \in 1..(Pow2(max_depth + 1) - 1),
       tf \in BOOLEAN, bf \in BOOLEAN :
        /\ last.op = "none"
        /\ last' = [op |-> "split", call |-> op, position |-> p,
                    tf |-> tf, bf |-> bf, pre_game |-> game,
                    res |-> split_call(op, p, split_depth, max_depth, tf, bf)]
        /\ UNCHANGED <<state, root_claim, status, split_depth, max_depth,
                       kind, lock, tasks>>

SplitNext == SplitCall \/ Return

SpecSplit == SplitInit /\ [][SplitNext]_vars

\* C18: each operation of the split provider gives the top provider's
\* result (value or error) for p when depth(p) <= split_depth and the
\* bottom provider's otherwise; the provider is asked with p unchanged and
\* the other provider is not asked, so its failing changes nothing.
C18_SplitRouting ==
    (last.op = "split") =>
        LET p == last.position
            sd == last.pre_game[3]
            md == last.pre_game[4]
        IN  /\ (depth(p) <= sd) =>
                   /\ last.res = top_call(last.call, p, sd, last.tf)
                   /\ last.res = split_call(last.call, p, sd, md, last.tf,
                                            ~last.bf)
            /\ (depth(p) > sd) =>
                   /\ last.res = bottom_call(last.call, p, md, last.bf)
                   /\ last.res = split_call(last.call, p, sd, md, ~last.tf,
                                            last.bf)
            /\ last.res.position = p
            /\ last.res.side = (IF depth(p) <= sd THEN "top" ELSE "bottom")
            /\ (last.res.kind = "ok" /\ last.call = "state_hash") =>
                   last.res.value = split_state_hash(p, sd, md)
            /\ (last.res.kind = "ok" /\ last.call = "state_at") =>
                   last.res.value = split_state_at(p, sd, md)
            /\ (last.res.kind = "ok" /\ last.call = "absolute_prestate") =>
                   last.res.value = split_absolute_prestate(p, sd)
            /\ (last.res.kind = "ok" /\ last.call = "proof_at") =>
                   last.res.value = split_proof_at(p, sd)

\* A call at the split depth went to the top provider and returned its
\* value although the bottom provider was failing.
C18_Witness ==
    /\ last.op = "split"
    /\ depth(last.position) = last.pre_game[3]
    /\ last.bf /\ ~last.tf
    /\ last.call = "state_hash"
    /\ last.res = CallOk("top", last.position,
                         mock_output_state_hash(last.position, last.pre_game[3]))

\* ------------------------------------------------------------------------
\* The position algebra on its own: make_move applied to the positions of
\* a tree two levels deeper than the deepest game.
\* ------------------------------------------------------------------------

PositionInit ==
    /\ kind = "alpha"
    /\ max_depth = MaxDepth
    /\ split_depth = SplitDepth
    /\ status = "InProgress"
    /\ root_claim = Coffee
    /\ state = <<>>
    /\ last = NoCall
    /\ lock = NoTask
    /\ tasks = <<>>

MakeMove ==
    \E g \in 1..(Pow2(MaxDepth + 3) - 1), is_attack \in BOOLEAN :
        /\ last.op = "none"
        /\ last' = [op |-> "make_move", g |-> g, is_attack |-> is_attack,
                    res |-> make_move(g, is_attack)]
        /\ UNCHANGED <<state, root_claim, status, split_depth, max_depth,
                       kind, lock, tasks>>

\* The accessors of the position 2^d + i in a tree of depth D.
Accessors ==
    \E D \in 0..(MaxDepth + 1) : \E d \in 0..D : \E i \in 0..(Pow2(d) - 1) :
        LET p == compute_gindex(d, i)
        IN  /\ last.op = "none"
            /\ last' = [op |-> "gindex", D |-> D, d |-> d, i |-> i, p |-> p,
                        depth |-> depth(p),
                        index_at_depth |-> index_at_depth(p),
                        left |-> left(p), right |-> right(p),
                        parent_left |-> parent(left(p)),
                        parent_right |-> parent(right(p)),
                        right_index |-> right_index(p, D),
                        trace_index |-> trace_index(p, D)]
            /\ UNCHANGED <<state, root_claim, status, split_depth, max_depth,
                           kind, lock, tasks>>

PositionNext == MakeMove \/ Accessors \/ Return

SpecPosition == PositionInit /\ [][PositionNext]_vars

\* C20 as stated: make_move(g, true) has depth(g) + 1 and index_at_depth
\* 2 * index_at_depth(g); make_move(g, false) has depth(g) + 1 and
\* index_at_depth 2 * index_at_depth(g) + 2, for every position g; here
\* for the positions below the root alone.
C20_Original ==
    (last.op = "make_move" /\ last.g > 1) =>
        /\ depth(last.res) = depth(last.g) + 1
        /\ index_at_depth(last.res) =
               2 * index_at_depth(last.g) + (IF last.is_attack THEN 0 ELSE 2)

\* C20 amended: make_move(g, is_attack) is ((!is_attack) | g) << 1, one
\* level below g; an attack has index_at_depth 2 * index_at_depth(g); a
\* defend has index_at_depth 2 * index_at_depth(g) + 2 when g is even (a
\* left child), and is the attack position 2g when g is odd (a right child
\* or the root).
C20_MakeMove ==
    (last.op = "make_move") =>
        /\ depth(last.res) = depth(last.g) + 1
        /\ last.res = 2 * (IF last.is_attack THEN last.g ELSE Or1(last.g))
        /\ last.is_attack =>
               index_at_depth(last.res) = 2 * index_at_depth(last.g)
        /\ (~last.is_attack /\ last.g % 2 = 0) =>
               index_at_depth(last.res) = 2 * index_at_depth(last.g) + 2
        /\ (~last.is_attack /\ last.g % 2 = 1) =>
               /\ last.res = 2 * last.g
               /\ index_at_depth(last.res) = 2 * index_at_depth(last.g)

\* A left child was defended.
C20_Witness ==
    /\ last.op = "make_move" /\ ~last.is_attack
    /\ last.g > 1 /\ last.g % 2 = 0
    /\ index_at_depth(last.res) = 2 * index_at_depth(last.g) + 2

\* C21 as stated: for every non-root position p, make_move(p, true) = 2p
\* and make_move(p, false) = 2p + 1.
C21_Original ==
    (last.op = "make_move" /\ last.g >= 2) =>
        last.res = 2 * last.g + (IF last.is_attack THEN 0 ELSE 1)

\* C21 amended: for every non-root position p, make_move(p, true) = 2p and
\* make_move(p, false) = 2 * (p | 1), which is 2p + 2 for an even p and 2p
\* for an odd p; no move reaches an odd position.
C21_Duality ==
    (last.op = "make_move" /\ last.g >= 2) =>
        /\ last.is_attack => last.res = 2 * last.g
        /\ (~last.is_attack /\ last.g % 2 = 0) => last.res = 2 * last.g + 2
        /\ (~last.is_attack /\ last.g % 2 = 1) => last.res = 2 * last.g
        /\ last.res % 2 = 0

\* A non-root left child was defended, and the move is not 2p + 1.
C21_Witness ==
    /\ last.op = "make_move" /\ ~last.is_attack
    /\ last.g >= 2 /\ last.g % 2 = 0
    /\ last.res = 2 * last.g + 2
    /\ last.res # 2 * last.g + 1

\* C22: for every d <= D and 0 <= i < 2^d, the position p = 2^d + i has
\* depth d and index_at_depth i, right_index(p, D) = (p + 1) * 2^(D - d) - 1,
\* trace_index(p, D) = (i + 1) * 2^(D - d) - 1, left(p) | 1 = right(p), and
\* the parent of left(p) and of right(p) is p.
C22_Accessors ==
    (last.op = "gindex") =>
        /\ last.depth = last.d
        /\ last.index_at_depth = last.i
        /\ last.right_index = (last.p + 1) * Pow2(last.D - last.d) - 1
        /\ last.trace_index = (last.i + 1) * Pow2(last.D - last.d) - 1
        /\ Or1(last.left) = last.right
        /\ last.parent_left = last.p
        /\ last.parent_right = last.p

\* Position 5 in a tree of depth 4: the row (2, 1, 23, 7) of the table.
C22_Witness ==
    /\ last.op = "gindex" /\ last.p = 5 /\ last.D = 4
    /\ last.depth = 2 /\ last.index_at_depth = 1
    /\ last.right_index = 23 /\ last.trace_index = 7

\* ------------------------------------------------------------------------
\* Two runs of available_moves: the second run is made on the game the
\* first run left, with the visited flags of the snapshot put back, and
\* with a provider that answers (and fails) as in the first run.
\* ------------------------------------------------------------------------

\* The claim vector st with the visited flags of the vector snap.
RECURSIVE RestoreFrom(_, _, _)
RestoreFrom(st, snap, n) ==
    IF n > Len(st) THEN <<>>
    ELSE <<WithVisited(st[n], snap[n].visited)>> \o RestoreFrom(st, snap, n + 1)

RestoreVisited(st, snap) == RestoreFrom(st, snap, 1)

\* A run of available_moves: the first one on the game as it is, the second
\* one on the game of the first with the snapshot's visited flags and the
\* same failing provider call.
RunMoves ==
    \E fc \in -1..Len(state), fk \in 1..3, second \in {last.op = "first_run"},
       before \in {IF last.op = "first_run"
                   THEN RestoreVisited(state, last.pre) ELSE state} :
            /\ last.op \in {"none", "first_run"}
            /\ second => (fc = last.fc /\ fk = last.fk)
            /\ (fc = -1 \/ fc = Len(state)) => (fk = 1)
            /\ (fc \in 0..(Len(state) - 1)) => ~before[fc + 1].visited
            /\ LET r == available_moves(kind, before, root_claim, split_depth,
                                        max_depth, fc, fk)
               IN  /\ state' = r.state
                   /\ last' = IF second
                              THEN [op |-> "second_run", pre |-> last.pre,
                                    pre_game |-> last.pre_game,
                                    fc |-> fc, fk |-> fk,
                                    ok |-> last.ok, moves |-> last.moves,
                                    post |-> state, pre2_game |-> game,
                                    ok2 |-> r.ok, moves2 |-> r.moves]
                              ELSE [op |-> "first_run", pre |-> state,
                                    pre_game |-> game, fc |-> fc, fk |-> fk,
                                    ok |-> r.ok, moves |-> r.moves]
            /\ UNCHANGED <<root_claim, status, split_depth, max_depth, kind,
                           lock, tasks>>

RerunNext == AddClaim \/ RunMoves \/ Return

SpecRerun == Init /\ [][RerunNext]_vars

Wrapped == <<255, 255, 255>>

\* The abort of the task inside a provider call.
solve_panic == [ok |-> FALSE, resp |-> NoResponse, visited |-> TRUE,
                panic |-> TRUE]

\* solve_claim on a claim c with depth(c.position) > md.  agrees: whether
\* the meaningless commitment happens to equal the claim's value.
corrupt_solve_claim(k, c, i, sd, md, ar, build, agrees) ==
    LET claim_depth == depth(c.position)
        returned(r) == [ok |-> r.ok, resp |-> r.resp, visited |-> r.visited,
                        panic |-> FALSE]
    IN  IF k = "alpha" THEN
            IF alpha_same_side(claim_depth, ar) THEN returned(Ok(Skip(i)))
            ELSE IF build = "debug" THEN solve_panic
            ELSE returned(Ok(Move(~agrees, i, Wrapped)))
        ELSE
            IF build = "debug" THEN solve_panic
            ELSE IF chad_right_level(ar, claim_depth) THEN returned(Ok(Skip(i)))
            ELSE returned(Ok(Step(~agrees, i, Wrapped,
                                  split_proof_at(make_move(c.position, ~agrees), sd))))

\* A claim below the leaves is in the vector.
HasCorrupt(st) == \E n \in 1..Len(st) : depth(st[n].position) > max_depth

\* The corruption: a claim one level below the leaves is appended.
PushCorrupt ==
    /\ last.op = "none"
    /\ Len(state) < MaxClaims
    /\ ~HasCorrupt(state)
    /\ \E pi \in 0..(Len(state) - 1),
          pos \in Pow2(max_depth + 1)..(Pow2(max_depth + 2) - 1) :
           state' = Append(state, ClaimData(pi, pos, Coffee, Len(state)))
    /\ last' = NoCall
    /\ UNCHANGED <<root_claim, status, split_depth, max_depth, kind, lock, tasks>>

\* A call of the claim solver on the claim below the leaves.
SolveCorrupt ==
    \E i \in 0..(Len(state) - 1), ar \in BOOLEAN, build \in Builds,
       agrees \in BOOLEAN :
        /\ last.op = "none"
        /\ depth(state[i + 1].position) > max_depth
        /\ (build = "debug") => agrees
        /\ LET r == corrupt_solve_claim(kind, state[i + 1], i, split_depth,
                                        max_depth, ar, build, agrees)
           IN  /\ state' = [state EXCEPT ![i + 1].visited = r.visited]
               /\ last' = [op |-> "solve_corrupt", pre |-> state,
                           pre_game |-> game, idx |-> i,
                           attacking_root |-> ar, build |-> build,
                           panic |-> r.panic, ok |-> r.ok,
                           moves |-> IF r.ok THEN <<r.resp>> ELSE <<>>]
        /\ UNCHANGED <<root_claim, status, split_depth, max_depth, kind, lock, tasks>>

CorruptNext == AddClaim \/ PushCorrupt \/ SolveCorrupt \/ Return

SpecCorrupt == Init /\ [][CorruptNext]_vars

\* C24 as stated: a claim whose position lies below the leaves
\* (depth(position) > max_depth) makes the solver return an error to the
\* caller; no Move and no Step is computed from such a position.
C24_Original ==
    (last.op = "solve_corrupt") =>
        /\ ~last.ok
        /\ ~last.panic
        /\ last.moves = <<>>

\* ------------------------------------------------------------------------
\* The alphabet provider of the alpha solver (providers/alphabet.rs) with
\* any absolute prestate: the state is one byte.
\* ------------------------------------------------------------------------

\* u8::MAX, the largest state byte.
U8_MAX == 255

\* The absolute prestates of the providers: b'a' of the tests and a letter
\* near the end of the byte.
Prestates == {AlphaAbsolutePrestate, U8_MAX - 5}

\* state_at: (a + trace_index + 1).try_into().unwrap_or(a + 2u8.pow(D)).
\* The argument of unwrap_or is computed on every call, in u8: when
\* a + 2^D does not fit the byte a debug build panics and a release build
\* wraps, whether or not the conversion failed.
alphabet_state_at(a, md, p, build) ==
    LET letter == a + trace_index(p, md) + 1
        fallback == a + Pow2(md)
    IN  IF fallback > U8_MAX /\ build = "debug" THEN CallPanic("alphabet", p)
        ELSE IF letter <= U8_MAX THEN CallOk("alphabet", p, <<letter>>)
        ELSE CallOk("alphabet", p, <<fallback % (U8_MAX + 1)>>)

\* state_hash: keccak256 of (trace_index, state_at(p)[0]), byte 0 Invalid.
alphabet_state_hash(a, md, p, build) ==
    LET s == alphabet_state_at(a, md, p, build)
    IN  IF s.kind # "ok" THEN s
        ELSE CallOk("alphabet", p, alphabet_claim(trace_index(p, md), s.value[1]))

AlphabetInit ==
    /\ kind = "alpha"
    /\ max_depth = MaxDepth
    /\ split_depth = SplitDepth
    /\ status = "InProgress"
    /\ root_claim = Coffee
    /\ state = <<>>
    /\ last = NoCall
    /\ lock = NoTask
    /\ tasks = <<>>

\* AlphabetTraceProvider::new(a, D) is asked for the state and the state
\* hash at a position of its tree.
StateAt ==
    \E a \in Prestates, D \in 1..(MaxDepth + 1), build \in Builds :
      \E p \in 1..(Pow2(D + 1) - 1) :
        /\ last.op = "none"
        /\ last' = [op |-> "state_at", a |-> a, D |-> D, p |-> p,
                    build |-> build,
                    state |-> alphabet_state_at(a, D, p, build),
                    hash |-> alphabet_state_hash(a, D, p, build)]
        /\ UNCHANGED <<state, root_claim, status, split_depth, max_depth,
                       kind, lock, tasks>>

AlphabetNext == StateAt \/ Return

SpecAlphabet == AlphabetInit /\ [][AlphabetNext]_vars

\* C25 as stated: for a provider with absolute prestate a and maximum depth
\* D, state_at(p) = a + trace_index(p, D) + 1 for every position p of depth
\* <= D, also when a + 2^D exceeds the state byte, and state_hash(p)
\* commits to the pair (trace_index(p, D), state_at(p)).
C25_Original ==
    (last.op = "state_at") =>
        /\ last.state.kind = "ok"
        /\ last.state.value = <<last.a + trace_index(last.p, last.D) + 1>>
        /\ last.hash.kind = "ok"
        /\ last.hash.value =
               alphabet_claim(trace_index(last.p, last.D),
                              last.a + trace_index(last.p, last.D) + 1)

\* ------------------------------------------------------------------------
\* Steps: a game bisected along one path down to a leaf, whose tip is then
\* given to the claim solver.  The tree is up to three levels deeper than
\* the split, so that an execution trace subgame has several leaves.
\* ------------------------------------------------------------------------

StepInit ==
    /\ kind \in {"alpha", "chad"}
    /\ split_depth = SplitDepth
    /\ max_depth \in (SplitDepth + 1)..(SplitDepth + 3)
    /\ status = "InProgress"
    /\ root_claim \in Values(kind, ROOT_CLAIM_POSITION, split_depth, max_depth)
    /\ \E v \in Values(kind, ROOT_CLAIM_POSITION, split_depth, max_depth) :
           state = <<ClaimData(U32_MAX, ROOT_CLAIM_POSITION, v, 0)>>
    /\ last = NoCall
    /\ lock = NoTask
    /\ tasks = <<>>

\* The game appends a counter to its latest claim.
Bisect ==
    /\ last.op = "none"
    /\ \E is_attack \in BOOLEAN :
         LET pi == Len(state) - 1
             pos == make_move(state[pi + 1].position, is_attack)
         IN  /\ depth(pos) <= max_depth
             /\ \E v \in Values(kind, pos, split_depth, max_depth) :
                    state' = Append(state, ClaimData(pi, pos, v, Len(state)))
    /\ last' = NoCall
    /\ UNCHANGED <<root_claim, status, split_depth, max_depth, kind, lock, tasks>>

\* The position the solver passes to proof_at when it builds a step
\* against claim c: pre_state_pos in the alpha solver, move_pos in the
\* chad solver.
proof_at_position(k, c, sd, md) ==
    IF k = "alpha"
    THEN alpha_pre_state_pos(c.position,
             alpha_is_attack(alpha_state_hash(c.position, md), c.value))
    ELSE chad_proof_pos(c.position,
             chad_local_agree(split_state_hash(c.position, sd, md), c.value))

\* Where the solver takes the prestate of a step against claim c from: the
\* provider's absolute prestate, or state_at of a position.
prestate_at_position(k, c, sd, md) ==
    IF k = "alpha"
    THEN LET is_attack ==
                 alpha_is_attack(alpha_state_hash(c.position, md), c.value)
         IN  [absolute |-> alpha_first_leaf(c.position, is_attack),
              position |-> alpha_pre_state_pos(c.position, is_attack)]
    ELSE LET local_agree ==
                 chad_local_agree(split_state_hash(c.position, sd, md),
                                  c.value)
         IN  [absolute |-> chad_first_leaf(make_move(c.position, ~local_agree),
                                           sd, md),
              position |-> chad_pre_state_pos(c.position, local_agree)]

\* A call of the claim solver on the latest claim, a leaf of the tree.
SolveLeaf ==
    \E ar \in BOOLEAN, f \in 0..3 :
        LET i == Len(state) - 1
            r == solve_on(kind, state, i, split_depth, max_depth, ar, f)
        IN  /\ last.op = "none"
            /\ depth(state[i + 1].position) = max_depth
            /\ state' = r.state
            /\ last' = [op |-> "solve_claim", pre |-> state,
                        pre_game |-> game, idx |-> i,
                        attacking_root |-> ar, ok |-> r.ok,
                        moves |-> IF r.ok THEN <<r.resp>> ELSE <<>>,
                        proof_pos |-> proof_at_position(kind, state[i + 1],
                                          split_depth, max_depth),
                        pre_state |-> prestate_at_position(kind, state[i + 1],
                                          split_depth, max_depth)]
            /\ UNCHANGED <<root_claim, status, split_depth, max_depth, kind,
                           lock, tasks>>

StepNext == Bisect \/ SolveLeaf \/ Return

SpecStep == StepInit /\ [][StepNext]_vars

\* The chad solver answered the claim Solved with the step r.
ChadStep(r) == IsSolve /\ last.ok /\ kind = "chad" /\ r.type = "Step"

\* C26: when the chad solver counters a leaf claim c with a Step, the
\* prestate is the absolute prestate of the execution subgame exactly when
\* index_at_depth(move_pos) % 2^(max_depth - split_depth) = 0 and the step
\* is an attack; otherwise it is state_at(c.position) for a defend and
\* state_at(c.position - 1) for an attack.  A defend step never carries
\* the absolute prestate.
C26_StepPrestate ==
    \A n \in 1..Len(last.moves) :
        LET r == last.moves[n]
            c == Solved
            move_pos == make_move(c.position, r.is_attack)
            first == /\ index_at_depth(move_pos)
                            % Pow2(max_depth - split_depth) = 0
                     /\ r.is_attack
        IN  ChadStep(r) =>
              /\ depth(c.position) = max_depth
              /\ r.prestate =
                     IF first THEN mock_alphabet_absolute_prestate
                     ELSE IF r.is_attack
                          THEN mock_alphabet_state_at(c.position - 1, max_depth)
                          ELSE mock_alphabet_state_at(c.position, max_depth)
              /\ first <=> (r.prestate = mock_alphabet_absolute_prestate)
              /\ ~r.is_attack => r.prestate # mock_alphabet_absolute_prestate

\* An attack step off the first leaf of the subgame carries the state at
\* c.position - 1.
C26_Witness ==
    /\ Len(last.moves) = 1 /\ ChadStep(last.moves[1])
    /\ last.moves[1].is_attack
    /\ index_at_depth(make_move(Solved.position, TRUE))
           % Pow2(max_depth - split_depth) # 0
    /\ last.moves[1].prestate =
           mock_alphabet_state_at(Solved.position - 1, max_depth)
    /\ last.moves[1].prestate #
           mock_alphabet_state_at(Solved.position, max_depth)

\* C27 as stated, for the chad solver: the proof of an emitted Step is the
\* provider's proof_at evaluated at the pre-state position, c.position for
\* a defend and c.position - 1 for an attack.
C27_Original ==
    \A n \in 1..Len(last.moves) :
        LET r == last.moves[n]
            pre_state_pos == IF r.is_attack THEN Solved.position - 1
                                            ELSE Solved.position
        IN  ChadStep(r) =>
              /\ last.proof_pos = pre_state_pos
              /\ r.proof = split_proof_at(pre_state_pos, split_depth)

\* C30: in the chad solver a non-root claim at depth split_depth + 1 whose
\* value is the provider's state_hash(position) gets Skip(i) whatever its
\* parity: it is never defended (nor countered in any other way).
C30_SubgameRootSkipped ==
    /\ \A r \in Responses :
           (~IsRoot(ClaimOf(r)) /\ SubgameRootAgreed(ClaimOf(r)))
               => r = Skip(r.claim_index)
    /\ (IsSolve /\ last.ok /\ ~IsRoot(Solved) /\ SubgameRootAgreed(Solved))
           => last.moves = <<Skip(last.idx)>>

\* An agreed claim at depth split_depth + 1, off the honest parity and
\* above the leaves, was solved and skipped.
C30_Witness ==
    /\ IsSolve /\ last.ok /\ kind = "chad"
    /\ ~IsRoot(Solved) /\ SubgameRootAgreed(Solved)
    /\ ~RightLevel(Solved.position)
    /\ depth(Solved.position) < last.pre_game[4]
    /\ last.moves = <<Skip(last.idx)>>

\* ------------------------------------------------------------------------
\* The scan of resolve and the claim that decides the winner.
\* ------------------------------------------------------------------------

\* The indices (from 0) of the uncountered claims of the resolved game.
Uncountered == {n \in 0..(Len(last.pre) - 1) : ~last.pre[n + 1].countered}

\* The trace index of claim n of the resolved game.
TraceOf(n) == trace_index(last.pre[n + 1].position, last.pre_game[4])

\* The uncountered claim of the smallest trace index, the one of highest
\* index among those that share it.
Best ==
    CHOOSE n \in Uncountered :
        \A m \in Uncountered :
            \/ TraceOf(n) < TraceOf(m)
            \/ TraceOf(n) = TraceOf(m) /\ m <= n

\* C28: a resolve that returns a winner for a game in progress decides it
\* from the claim at index best_index + 1, best_index being the index the
\* scan chose: DefenderWins exactly when an uncountered claim exists and
\* the claim at best_index + 1 has even depth, ChallengerWins otherwise,
\* in particular when every claim is countered.
C28_WinnerFromNextIndex ==
    (IsResolve /\ PreStatus = "InProgress" /\ last.res.kind = "ok") =>
        /\ Uncountered # {} => Best + 1 < Len(last.pre)
        /\ last.res.value =
              IF /\ Uncountered # {}
                 /\ depth(last.pre[Best + 2].position) % 2 = 0
              THEN "DefenderWins" ELSE "ChallengerWins"
        /\ Uncountered = {} => last.res.value = "ChallengerWins"

\* The scan chose claim 1, at odd depth, and the claim after it, at even
\* depth, made the defender win.
C28_Witness ==
    /\ IsResolve /\ PreStatus = "InProgress" /\ last.res.kind = "ok"
    /\ Uncountered # {} /\ Best = 1
    /\ depth(last.pre[Best + 1].position) % 2 = 1
    /\ depth(last.pre[Best + 2].position) % 2 = 0
    /\ last.res.value = "DefenderWins"

\* C29: the scan of resolve skips every countered claim and selects, among
\* the uncountered claims, one of the smallest trace index, the one of
\* highest claim index when several share it; the index it keeps is the
\* selected one plus one.  With no uncountered claim it keeps the last
\* index and u64::MAX.
C29_ScanSelection ==
    (IsResolve /\ PreStatus = "InProgress" /\ Len(last.pre) > 0) =>
        IF Uncountered = {}
        THEN Chosen = [index |-> Len(last.pre) - 1, trace |-> U64_MAX]
        ELSE /\ Chosen.index - 1 \in Uncountered
             /\ Chosen.trace = TraceOf(Chosen.index - 1)
             /\ \A m \in Uncountered :
                    \/ Chosen.trace < TraceOf(m)
                    \/ Chosen.trace = TraceOf(m) /\ m <= Chosen.index - 1
             /\ Chosen.index - 1 = Best

\* Two uncountered claims share the smallest trace index, the later one
\* was selected, and a countered claim was passed over.
C29_Witness ==
    /\ IsResolve /\ PreStatus = "InProgress" /\ Len(last.pre) = 3
    /\ last.pre[1].countered
    /\ Uncountered = {1, 2}
    /\ TraceOf(1) = TraceOf(2)
    /\ Chosen.index - 1 = 2

\* ------------------------------------------------------------------------
\* The solver's moves played back into the game: a run of available_moves,
\* every Move of it appended as a new claim, and a second run on the grown
\* game with the same provider.
\* ------------------------------------------------------------------------

\* The claim vector st with every Move of moves (from the n-th on) appended
\* as an unvisited child of the claim it counters.
RECURSIVE AppendMoves(_, _, _)
AppendMoves(st, moves, n) ==
    IF n > Len(moves) THEN st
    ELSE IF moves[n].type = "Move"
    THEN AppendMoves(
             Append(st, ClaimData(moves[n].claim_index,
                                  make_move(st[moves[n].claim_index + 1].position,
                                            moves[n].is_attack),
                                  moves[n].claim, Len(st))),
             moves, n + 1)
    ELSE AppendMoves(st, moves, n + 1)

\* A successful run, its moves appended, and a second run in which call fk
\* of the solve of the new claim fc may fail.
Reply ==
    \E first \in {available_moves(kind, state, root_claim, split_depth,
                                  max_depth, Len(state), 1)} :
      \E grown \in {AppendMoves(first.state, first.moves, 1)} :
        \E fc \in Len(state)..Len(grown), fk \in 1..3 :
            /\ last.op = "none"
            /\ first.ok
            /\ (fc = Len(grown)) => (fk = 1)
            /\ \E second \in {available_moves(kind, grown, root_claim,
                                              split_depth, max_depth, fc, fk)} :
                 /\ state' = second.state
                 /\ last' = [op |-> "reply", pre |-> state, pre_game |-> game,
                             ok |-> first.ok, moves |-> first.moves,
                             grown |-> grown, fc |-> fc, fk |-> fk,
                             ok2 |-> second.ok, moves2 |-> second.moves]
            /\ UNCHANGED <<root_claim, status, split_depth, max_depth, kind,
                           lock, tasks>>

ReplyNext == AddClaim \/ Reply \/ Return

SpecReply == Init /\ [][ReplyNext]_vars

\* C31: in a game whose claim 0 carries the game's root claim, the claims
\* appended for the Moves of a run of available_moves are never countered
\* by the next run with the same provider: the next run answers no old
\* claim, and when it succeeds it answers every new claim, in order, with
\* Skip.
C31_NoSelfCounter ==
    (last.op = "reply" /\ last.pre[1].value = last.pre_game[1]) =>
        /\ Len(last.grown) - Len(last.pre)
             = Cardinality({n \in 1..Len(last.moves) :
                              last.moves[n].type = "Move"})
        /\ \A n \in 1..Len(last.moves2) :
               /\ last.moves2[n].type = "Skip"
               /\ last.moves2[n].claim_index = Len(last.pre) + n - 1
        /\ last.ok2 => Len(last.moves2) = Len(last.grown) - Len(last.pre)

\* The first run countered two claims with Moves, an attack and a defence,
\* and the second run skipped both new claims.
C31_Witness ==
    /\ last.op = "reply" /\ last.pre[1].value = last.pre_game[1]
    /\ last.ok2 /\ Len(last.moves2) = 2
    /\ \E n, m \in 1..Len(last.moves) :
           /\ last.moves[n].type = "Move" /\ last.moves[n].is_attack
           /\ last.moves[m].type = "Move" /\ ~last.moves[m].is_attack

\* C32: resolve of a game in progress fails when the uncountered claim the
\* scan selects is the last claim of the vector: it returns the error
\* "Could not fetch claim from state" whatever sim is and in either build,
\* and the status stays InProgress.  A game of one uncountered root claim
\* is the smallest such game.
C32_LastClaimChosen ==
    (/\ IsResolve /\ PreStatus = "InProgress"
     /\ Uncountered # {} /\ Best = Len(last.pre) - 1) =>
        /\ last.res = ResErr("ClaimNotFound", "InProgress")
        /\ status = "InProgress"

\* A real resolve (sim = false) of a game of three claims whose last claim
\* is the uncountered claim of smallest trace index, with expired clocks.
C32_Witness ==
    /\ IsResolve /\ PreStatus = "InProgress" /\ ~last.sim
    /\ Len(last.pre) = 3 /\ Uncountered = {0, 2} /\ Best = 2
    /\ TraceOf(2) < TraceOf(0)
    /\ \A n \in 1..3 : last.pre[n].clock = Clock(GAME_DURATION \div 2, 1)
    /\ last.now = 2
    /\ last.res.kind = "err"

\* C33 as stated: the solves of one game exclude each other (at most one
\* task is between its stamp of visited and its return, and it holds the
\* mutex), and a solve that ended in an oracle error has left its claim
\* unvisited by the time it returns and drops the guard, so that no other
\* task finds visited = true on that claim.
C33_Original ==
    /\ Cardinality({t \in DOMAIN tasks : tasks[t].pc = "await"}) <= 1
    /\ \A t \in DOMAIN tasks : (tasks[t].pc = "await") => (lock = t)
    /\ \A t \in DOMAIN tasks :
           (tasks[t].pc = "done" /\ ~tasks[t].ok) => ~tasks[t].visited_after

\* ------------------------------------------------------------------------
\* Sequences of moves from the root position, and the two moves of any
\* position.
\* ------------------------------------------------------------------------

\* One more make_move on the position the sequence has reached; a sequence
\* starts at the root position.
Walk ==
    \E is_attack \in BOOLEAN, g \in {IF last.op = "walk" THEN last.res
                                     ELSE ROOT_CLAIM_POSITION} :
        /\ last.op \in {"none", "walk"}
        /\ depth(g) < MaxDepth + 4
        /\ last' = [op |-> "walk", g |-> g, is_attack |-> is_attack,
                    res |-> make_move(g, is_attack),
                    attack |-> make_move(g, TRUE),
                    defend |-> make_move(g, FALSE)]
        /\ UNCHANGED <<state, root_claim, status, split_depth, max_depth,
                       kind, lock, tasks>>

\* The attack and the defend of a position g above the leaves of a tree of
\* depth D, with the trace indices of g, of its moves and of its right
\* child.
BothMoves ==
    \E g \in 1..(Pow2(MaxDepth + 2) - 1), D \in 1..(MaxDepth + 2) :
        /\ last.op = "none"
        /\ depth(g) < D
        /\ last' = [op |-> "both", g |-> g, D |-> D,
                    attack |-> make_move(g, TRUE),
                    defend |-> make_move(g, FALSE),
                    trace_index |-> trace_index(g, D),
                    trace_attack |-> trace_index(make_move(g, TRUE), D),
                    trace_defend |-> trace_index(make_move(g, FALSE), D),
                    trace_right |-> trace_index(right(g), D),
                    right_index |-> right_index(g, D),
                    right_index_twice |-> right_index(right_index(g, D), D)]
        /\ UNCHANGED <<state, root_claim, status, split_depth, max_depth,
                       kind, lock, tasks>>

WalkNext == Walk \/ BothMoves \/ Return

SpecWalk == PositionInit /\ [][WalkNext]_vars

\* C34: every position reached from the root position 1 by one or more
\* make_move calls is even; on an even position p the defend is 2p + 2,
\* differs from the attack 2p and lies one level below p; the defend and
\* the attack of a position are the same position exactly when the
\* position is odd (the root or a right child).
C34_MovesEven ==
    /\ (last.op = "walk") =>
           /\ last.res % 2 = 0
           /\ (last.g % 2 = 0) =>
                  /\ last.defend = 2 * last.g + 2
                  /\ last.attack = 2 * last.g
                  /\ depth(last.defend) = depth(last.g) + 1
    /\ (last.op = "both") =>
           /\ (last.g % 2 = 0) =>
                  /\ last.defend = 2 * last.g + 2
                  /\ last.attack = 2 * last.g
                  /\ depth(last.defend) = depth(last.g) + 1
           /\ (last.defend = last.attack) <=> (last.g % 2 = 1)

\* A sequence of moves went root, 2, 6, 14 by defends and then attacked;
\* the defend of 14 would have been 30.
C34_Witness ==
    /\ last.op = "walk" /\ last.g = 14 /\ last.is_attack
    /\ last.res = 28 /\ last.defend = 30 /\ depth(last.defend) = 4

\* C35: for every even position p above the leaves of a tree of depth D,
\* the attack of p has a smaller trace index than p and the defend of p a
\* larger one; the right child of p has the trace index of p, and
\* right_index applied to right_index(p, D) returns it unchanged.
C35_BisectionNarrows ==
    (last.op = "both" /\ last.g % 2 = 0) =>
        /\ last.trace_attack < last.trace_index
        /\ last.trace_index < last.trace_defend
        /\ last.trace_right = last.trace_index
        /\ last.right_index_twice = last.right_index

\* Position 6 in a tree of depth 4: trace index 11, attack 12 with trace
\* index 9, defend 14 with trace index 13, right child 13 with trace
\* index 11.
C35_Witness ==
    /\ last.op = "both" /\ last.g = 6 /\ last.D = 4
    /\ last.attack = 12 /\ last.defend = 14
    /\ last.trace_attack = 9 /\ last.trace_index = 11
    /\ last.trace_defend = 13 /\ last.trace_right = 11
    /\ last.right_index = 27 /\ last.right_index_twice = 27

\* ------------------------------------------------------------------------
\* Sequences of available_moves calls on a game that grows between the
\* calls, with the number of responses each claim has been given so far.
\* ------------------------------------------------------------------------

\* The number of successful calls that have answered claim n (from 1).
AnsweredSoFar(n) ==
    IF last.op = "moves" /\ n <= Len(last.answered)
    THEN last.answered[n] ELSE 0

\* The game appends a counter to claim pi between two calls.
GrowGame ==
    /\ last.op \in {"none", "moves"}
    /\ Len(state) < MaxClaims
    /\ \E pi \in 0..(Len(state) - 1), is_attack \in BOOLEAN :
         LET pos == make_move(state[pi + 1].position, is_attack)
         IN  /\ depth(pos) <= max_depth
             /\ \E v \in Values(kind, pos, split_depth, max_depth) :
                    state' = Append(state, ClaimData(pi, pos, v, Len(state)))
    /\ UNCHANGED <<root_claim, status, split_depth, max_depth, kind, last,
                   lock, tasks>>

\* One more call of available_moves, in which the first or the second
\* provider call of the solve of claim fc may fail; the record keeps the
\* outcome of the call before it and the game that call left.
CallMoves ==
    \E fc \in -1..Len(state), fk \in 1..2 :
        /\ last.op \in {"none", "moves"}
        /\ (fc = -1 \/ fc = Len(state)) => (fk = 1)
        /\ (fc \in 0..(Len(state) - 1)) => ~state[fc + 1].visited
        /\ \E r \in {available_moves(kind, state, root_claim, split_depth,
                                     max_depth, fc, fk)} :
             /\ state' = r.state
             /\ last' = [op |-> "moves", pre |-> state, pre_game |-> game,
                         fc |-> fc, ok |-> r.ok, moves |-> r.moves,
                         post |-> r.state,
                         prev_ok |-> (last.op = "moves" /\ last.ok),
                         prev_post |-> IF last.op = "moves" THEN last.post
                                       ELSE <<>>,
                         answered |->
                           [n \in 1..Len(state) |->
                              AnsweredSoFar(n) +
                              Cardinality({m \in 1..Len(r.moves) :
                                  r.moves[m].claim_index = n - 1})]]
        /\ UNCHANGED <<root_claim, status, split_depth, max_depth, kind,
                       lock, tasks>>

CallsNext == GrowGame \/ CallMoves

SpecCalls == Init /\ [][CallsNext]_vars

\* C36: after a successful available_moves call every claim of the game
\* is visited; a call made on the game just as a successful call left it
\* changes no flag and returns no response (an empty list, unless the
\* provider fails on the root position); over any sequence of calls no
\* claim is answered by more than one successful call.
C36_AnsweredOnce ==
    (last.op = "moves") =>
        /\ last.ok => \A n \in 1..Len(last.post) : last.post[n].visited
        /\ (last.prev_ok /\ last.pre = last.prev_post) =>
               /\ last.moves = <<>>
               /\ last.post = last.pre
               /\ last.ok \/ last.fc = -1
        /\ \A n \in 1..Len(last.answered) : last.answered[n] <= 1

\* Three claims were each answered once by successful calls, all are
\* visited, and a further successful call made at once returned nothing.
C36_Witness ==
    /\ last.op = "moves" /\ last.ok /\ last.prev_ok
    /\ last.pre = last.prev_post /\ Len(last.pre) = 3
    /\ last.moves = <<>> /\ last.post = last.pre
    /\ last.answered = <<1, 1, 1>>
    /\ \E n \in 1..3 : last.pre[n].position > 2

\* C37: whenever the prestate of a Step is read at c.position - 1 (an
\* attack step that does not take the absolute prestate), c.position - 1
\* is at the depth of c.position, which is max_depth, and for the chad
\* solver it has the ancestor of c.position at depth split_depth + 1: the
\* prestate is a leaf of the same execution subgame.
C37_PrestateInSubgame ==
    (/\ IsSolve /\ last.ok /\ last.moves[1].type = "Step"
     /\ last.moves[1].is_attack /\ ~last.pre_state.absolute) =>
        LET p == Solved.position
            sub == Pow2(max_depth - (split_depth + 1))
        IN  /\ last.pre_state.position = p - 1
            /\ depth(p) = max_depth
            /\ depth(p - 1) = depth(p)
            /\ (kind = "chad") => ((p - 1) \div sub = p \div sub)

\* The chad solver attacked the leaf at position 18 of a tree of depth 4
\* split at depth 1 and read the prestate at position 17; both lie below
\* position 4.
C37_Witness ==
    /\ IsSolve /\ last.ok /\ kind = "chad" /\ max_depth = split_depth + 3
    /\ last.moves[1].type = "Step" /\ last.moves[1].is_attack
    /\ ~last.pre_state.absolute
    /\ Solved.position = 18 /\ last.pre_state.position = 17
    /\ last.moves[1].prestate = mock_alphabet_state_at(17, max_depth)

\* ------------------------------------------------------------------------
\* The two claim solvers side by side: the alpha solver and the chad solver
\* are asked about the same claim of the same game, with the same
\* attacking_root, over the same (split) provider.
\* ------------------------------------------------------------------------

CompareInit == StepInit /\ kind = "chad"

Compare ==
    \E i \in 0..(Len(state) - 1), ar \in BOOLEAN :
        /\ last.op = "none"
        /\ last' = [op |-> "compare", pre |-> state, pre_game |-> game,
                    idx |-> i, attacking_root |-> ar,
                    alpha |-> alpha_solve_claim_on(kind, state[i + 1], i,
                                  split_depth, max_depth, ar, 0),
                    chad |-> chad_solve_claim(state[i + 1], i, split_depth,
                                              max_depth, ar, 0)]
        /\ UNCHANGED <<state, root_claim, status, split_depth, max_depth,
                       kind, lock, tasks>>

CompareNext == Bisect \/ Compare \/ Return

SpecCompare == CompareInit /\ [][CompareNext]_vars

\* C38: in a game whose claim 0 carries the game's root claim, with
\* attacking_root the provider's disagreement with the root claim, the
\* alpha solver and the chad solver give the same response (variant,
\* is_attack, claim index, claim hash) to every claim above max_depth
\* whose depth is not split_depth + 1, when the provider answers both
\* alike.
C38_AlphaIsChad ==
    (/\ last.op = "compare"
     /\ last.pre[1].value = root_claim
     /\ last.attacking_root =
            (split_state_hash(ROOT_CLAIM_POSITION, split_depth, max_depth)
                 # root_claim)
     /\ depth(last.pre[last.idx + 1].position) < max_depth
     /\ depth(last.pre[last.idx + 1].position) # split_depth + 1) =>
        /\ last.alpha.ok /\ last.chad.ok
        /\ last.alpha.resp.type \in {"Skip", "Move"}
        /\ last.alpha.resp = last.chad.resp

\* Both solvers defended the claim at position 12, three levels down in a
\* tree of depth 4, with the same hash.
C38_Witness ==
    /\ last.op = "compare" /\ last.pre[1].value = root_claim
    /\ last.attacking_root =
           (split_state_hash(ROOT_CLAIM_POSITION, split_depth, max_depth)
                # root_claim)
    /\ max_depth = split_depth + 3
    /\ last.pre[last.idx + 1].position = 12
    /\ last.alpha.resp.type = "Move" /\ ~last.alpha.resp.is_attack
    /\ last.chad.resp = last.alpha.resp
    /\ last.chad.resp.claim = split_state_hash(26, split_depth, max_depth)

====
